---- MODULE Spec2Model ----
(***************************************************************************)
(* Model of the SQL chatbot pipelines: the three validators                *)
(* (validate_sql_syntax, AdvancedSQLPipeline._is_safe_sql,                 *)
(* SimpleSQLPipeline._is_safe_sql), the assembler step4_build_sql and the  *)
(* process_query operation of SQLQueryPipeline, AdvancedSQLPipeline and    *)
(* SimpleSQLPipeline.                                                      *)
(*                                                                         *)
(* Python strings are sequences of one-character strings, so that upper(), *)
(* strip(), split(), substring tests and counts are computed character by  *)
(* character as the code computes them.                                    *)
(***************************************************************************)
EXTENDS Integers, Sequences, FiniteSets, TLC

VARIABLES
  vin,        \* validator harness: the candidate SQL string handed to a validator
  vn,         \* validator harness: number of pieces the string was built from
  vres,       \* validator harness: the last validator run and its verdict
  pipeline,   \* the class of the pipeline instance
  schema,     \* self.schema: the snapshot built by __init__
  pc,         \* position of the running process_query call
  user_query, \* the question of the running call
  tables,     \* local of process_query: step1's table list
  joins,      \* local of process_query: step2's join plan
  columns,    \* local of process_query: step3's column list
  sql_query,  \* local of process_query: the assembled or generated SQL
  response,   \* the record process_query returned
  raised,     \* whether process_query raised to its caller
  llm_log,    \* the oracle calls of the running call, in order
  check_log,  \* the validation checks of the running call, in order
  db_log,     \* what the database saw in the running call: connections opened and
              \* closed and statements received, in order
  pool,       \* self.engine: the connections its pool holds open between uses
  where_response, \* local of step4_build_sql: the oracle's answer about the filter
  where_clause, \* local of step4_build_sql: the extracted WHERE fragment
  target_table, \* local of SimpleSQLPipeline.process_query
  entry,      \* interactive loop: the entry script that is running
  running,    \* interactive loop: position of main()
  user_input, \* local of main: the line read last
  chat_history, \* ChatHistory.history of main's history object
  current_analyzer, \* local of adv_main.main
  console     \* interactive loop: what the last iteration printed

vvars == <<vin, vn, vres>>
pvars == <<pipeline, schema, pc, user_query, tables, joins, columns, sql_query,
           response, raised, llm_log, check_log, db_log, pool, where_response,
           where_clause, target_table>>
lvars == <<entry, running, user_input, chat_history, current_analyzer, console>>
vars == <<vin, vn, vres, pipeline, schema, pc, user_query, tables, joins, columns,
          sql_query, response, raised, llm_log, check_log, db_log, pool,
          where_response, where_clause,
          target_table, entry, running, user_input, chat_history,
          current_analyzer, console>>

(***************************************************************************)
(* Bounds                                                                  *)
(***************************************************************************)
MaxPieces == 3

(***************************************************************************)
(* Python str operations                                                   *)
(***************************************************************************)
Lowers == <<"a", "b", "c", "d", "e", "f", "g", "h", "i", "j", "k", "l", "m", "n", "o", "p", "q", "r", "s", "t", "u", "v", "w", "x", "y", "z">>
Uppers == <<"A", "B", "C", "D", "E", "F", "G", "H", "I", "J", "K", "L", "M", "N", "O", "P", "Q", "R", "S", "T", "U", "V", "W", "X", "Y", "Z">>

LowerSet == {Lowers[i] : i \in 1..26}
UpperSet == {Uppers[i] : i \in 1..26}

UpperMap == [c \in LowerSet |-> Uppers[CHOOSE i \in 1..26 : Lowers[i] = c]]
LowerMap == [c \in UpperSet |-> Lowers[CHOOSE i \in 1..26 : Uppers[i] = c]]

\* str.upper(), one character
UpperChar(c) == IF c \in LowerSet THEN UpperMap[c] ELSE c

\* str.lower(), one character
LowerChar(c) == IF c \in UpperSet THEN LowerMap[c] ELSE c

\* str.upper()
upper(s) == [i \in 1..Len(s) |-> UpperChar(s[i])]

\* str.lower()
lower(s) == [i \in 1..Len(s) |-> LowerChar(s[i])]

\* the characters str.strip() and str.split() treat as whitespace
WS == {" ", "\t", "\n", "\r"}

\* k in s
contains(s, k) ==
  \E i \in 1..(Len(s) - Len(k) + 1) : SubSeq(s, i, i + Len(k) - 1) = k

\* s.startswith(k)
startswith(s, k) == Len(s) >= Len(k) /\ SubSeq(s, 1, Len(k)) = k

\* s.count(c) for a one-character c
count(s, c) == Cardinality({i \in 1..Len(s) : s[i] = c})

SetMin(S) == CHOOSE x \in S : \A y \in S : x <= y
SetMax(S) == CHOOSE x \in S : \A y \in S : x >= y

\* s.strip()
strip(s) ==
  LET idx == {i \in 1..Len(s) : s[i] \notin WS}
  IN IF idx = {} THEN <<>> ELSE SubSeq(s, SetMin(idx), SetMax(idx))

\* s.rstrip(c) for a one-character c
rstrip(s, c) ==
  LET keep == {i \in 1..Len(s) : s[i] # c}
  IN IF keep = {} THEN <<>> ELSE SubSeq(s, 1, SetMax(keep))

\* the elements of a finite set of integers in increasing order
SortedSeq(S) ==
  [k \in 1..Cardinality(S) |-> CHOOSE x \in S : Cardinality({y \in S : y < x}) = k - 1]

\* the pieces of s between the indices in cuts (each cut index is dropped)
PiecesBetween(s, cuts) ==
  LET b == SortedSeq(cuts)
      lo(k) == IF k = 1 THEN 1 ELSE b[k - 1] + 1
      hi(k) == IF k = Len(b) + 1 THEN Len(s) ELSE b[k] - 1
  IN [k \in 1..(Len(b) + 1) |-> SubSeq(s, lo(k), hi(k))]

\* s.split(): the whitespace-separated tokens
split(s) ==
  SelectSeq(PiecesBetween(s, {i \in 1..Len(s) : s[i] \in WS}), LAMBDA t : t # <<>>)

\* sep.join(parts)
RECURSIVE join(_, _)
join(sep, parts) ==
  IF parts = <<>> THEN <<>>
  ELSE IF Len(parts) = 1 THEN parts[1]
  ELSE parts[1] \o sep \o join(sep, Tail(parts))

\* s[:n]
prefix(s, n) == SubSeq(s, 1, IF Len(s) < n THEN Len(s) ELSE n)

(***************************************************************************)
(* String literals of the source                                           *)
(***************************************************************************)
S_SELECT == <<"S", "E", "L", "E", "C", "T">>
S_FROM == <<"F", "R", "O", "M">>
S_WHERE == <<"W", "H", "E", "R", "E">>
S_WITH == <<"W", "I", "T", "H">>
S_DROP == <<"D", "R", "O", "P">>
S_DELETE == <<"D", "E", "L", "E", "T", "E">>
S_TRUNCATE == <<"T", "R", "U", "N", "C", "A", "T", "E">>
S_ALTER == <<"A", "L", "T", "E", "R">>
S_CREATE == <<"C", "R", "E", "A", "T", "E">>
S_INSERT == <<"I", "N", "S", "E", "R", "T">>
S_UPDATE == <<"U", "P", "D", "A", "T", "E">>
S_EXEC == <<"E", "X", "E", "C">>
S_EXECUTE == <<"E", "X", "E", "C", "U", "T", "E">>

\* the first keyword of the list, in list order, that occurs in s; <<>> when none does
FirstKeywordIn(list, s) ==
  LET hits == {i \in 1..Len(list) : contains(s, list[i])}
  IN IF hits = {} THEN <<>> ELSE list[SetMin(hits)]

(***************************************************************************)
(* validate_sql_syntax (query_pipeline.py)                                 *)
(***************************************************************************)
required_clauses == <<S_SELECT, S_FROM>>

dangerous_patterns ==
  <<S_DROP, S_DELETE, S_TRUNCATE, S_ALTER, S_CREATE, S_INSERT, S_UPDATE>>

\* the variant that looks for the dangerous patterns before the WHERE test
validate_sql_syntax_patterns_first(sql) ==
  LET u == upper(sql)
      missing == {i \in 1..Len(required_clauses) : ~contains(u, required_clauses[i])}
  IN IF missing # {}
       THEN [ok |-> FALSE, msg |-> "Missing required clause",
             detail |-> required_clauses[SetMin(missing)]]
     ELSE IF count(sql, "(") # count(sql, ")")
       THEN [ok |-> FALSE, msg |-> "Mismatched parentheses", detail |-> <<>>]
     ELSE IF FirstKeywordIn(dangerous_patterns, u) # <<>>
       THEN [ok |-> FALSE, msg |-> "Potentially dangerous SQL operation detected",
             detail |-> FirstKeywordIn(dangerous_patterns, u)]
     ELSE IF contains(u, S_WHERE) /\ ~contains(sql, S_WHERE)
       THEN [ok |-> FALSE, msg |-> "Invalid WHERE clause", detail |-> <<>>]
     ELSE [ok |-> TRUE, msg |-> "SQL syntax appears valid", detail |-> <<>>]

validate_sql_syntax(sql) ==
  LET u == upper(sql)
      missing == {i \in 1..Len(required_clauses) : ~contains(u, required_clauses[i])}
  IN IF missing # {}
       THEN [ok |-> FALSE, msg |-> "Missing required clause",
             detail |-> required_clauses[SetMin(missing)]]
     ELSE IF count(sql, "(") # count(sql, ")")
       THEN [ok |-> FALSE, msg |-> "Mismatched parentheses", detail |-> <<>>]
     ELSE IF contains(u, S_WHERE) /\ ~contains(sql, S_WHERE)
       THEN [ok |-> FALSE, msg |-> "Invalid WHERE clause", detail |-> <<>>]
     ELSE IF FirstKeywordIn(dangerous_patterns, u) # <<>>
       THEN [ok |-> FALSE, msg |-> "Potentially dangerous SQL operation detected",
             detail |-> FirstKeywordIn(dangerous_patterns, u)]
     ELSE [ok |-> TRUE, msg |-> "SQL syntax appears valid", detail |-> <<>>]

(***************************************************************************)
(* AdvancedSQLPipeline._is_safe_sql (advanced_pipeline.py)                 *)
(***************************************************************************)
dangerous_keywords ==
  <<S_DROP, S_DELETE, S_UPDATE, S_INSERT, S_CREATE, S_ALTER, S_TRUNCATE,
    S_EXEC, S_EXECUTE>>

Advanced_is_safe_sql(sql) ==
  LET sql_upper == strip(upper(sql))
  IN IF ~(startswith(sql_upper, S_SELECT) \/ startswith(sql_upper, S_WITH))
       THEN [ok |-> FALSE, msg |-> "SQL must start with SELECT or WITH", detail |-> <<>>]
     ELSE IF FirstKeywordIn(dangerous_keywords, sql_upper) # <<>>
       THEN [ok |-> FALSE, msg |-> "Dangerous keyword found",
             detail |-> FirstKeywordIn(dangerous_keywords, sql_upper)]
     ELSE IF contains(sql, <<";">>)
       THEN [ok |-> FALSE, msg |-> "Multiple statements not allowed", detail |-> <<>>]
     ELSE [ok |-> TRUE, msg |-> "SQL passed safety checks", detail |-> <<>>]

(***************************************************************************)
(* SimpleSQLPipeline._is_safe_sql (simple_pipeline.py)                     *)
(***************************************************************************)
\* the list without INSERT: the rejection of INSERT rests on the entry
dangerous_words_no_insert ==
  <<S_DROP, S_DELETE, S_UPDATE, S_ALTER, S_CREATE, S_TRUNCATE, S_EXEC>>

dangerous_words ==
  <<S_DROP, S_DELETE, S_UPDATE, S_INSERT, S_ALTER, S_CREATE, S_TRUNCATE, S_EXEC>>

\* SELECT must occur in the first SelectWindow characters
SelectWindow == 20

\* the single quotes not preceded by a backslash
quote_count(sql) ==
  Cardinality({i \in 1..Len(sql) : sql[i] = "'" /\ (i = 1 \/ sql[i - 1] # "\\")})

Simple_is_safe_sql(sql) ==
  LET sql_clean == join(<<" ">>, split(sql))
      sql_upper == strip(upper(sql_clean))
  IN IF sql = <<>> \/ strip(sql) = <<>>
       THEN [ok |-> FALSE, msg |-> "SQL is empty", detail |-> <<>>]
     ELSE IF ~startswith(sql_upper, S_SELECT)
             /\ ~contains(prefix(sql_upper, SelectWindow), S_SELECT)
       THEN [ok |-> FALSE, msg |-> "SQL must start with SELECT", detail |-> <<>>]
     ELSE IF FirstKeywordIn(dangerous_words, sql_upper) # <<>>
       THEN [ok |-> FALSE, msg |-> "Dangerous keyword found",
             detail |-> FirstKeywordIn(dangerous_words, sql_upper)]
     ELSE IF quote_count(sql) % 2 # 0
       THEN [ok |-> FALSE, msg |-> "Unbalanced single quotes in SQL", detail |-> <<>>]
     ELSE IF ~contains(sql_upper, S_FROM)
       THEN [ok |-> FALSE, msg |-> "SQL missing FROM clause", detail |-> <<>>]
     ELSE IF count(sql_upper, "(") # count(sql_upper, ")")
       THEN [ok |-> FALSE, msg |-> "Unbalanced parentheses", detail |-> <<>>]
     ELSE [ok |-> TRUE, msg |-> "SQL passed all safety checks", detail |-> <<>>]

(***************************************************************************)
(* More str operations                                                     *)
(***************************************************************************)
\* s.split(c) for a one-character c
splitOn(s, c) == PiecesBetween(s, {i \in 1..Len(s) : s[i] = c})

\* s.replace(c, r) for a one-character c
replace(s, c, r) == join(r, splitOn(s, c))

\* the concatenation of a sequence of sequences
RECURSIVE Concat(_)
Concat(ss) == IF ss = <<>> THEN <<>> ELSE Head(ss) \o Concat(Tail(ss))

\* [strip(x) for x in parts]
StripAll(parts) == [i \in 1..Len(parts) |-> strip(parts[i])]

(***************************************************************************)
(* The schema snapshot (SQLQueryPipeline._get_schema)                      *)
(***************************************************************************)
T_customers == <<"c", "u", "s", "t", "o", "m", "e", "r", "s">>
T_orders == <<"o", "r", "d", "e", "r", "s">>
T_order_items == <<"o", "r", "d", "e", "r", "_", "i", "t", "e", "m", "s">>
C_id == <<"i", "d">>
C_first_name == <<"f", "i", "r", "s", "t", "_", "n", "a", "m", "e">>
C_city == <<"c", "i", "t", "y">>
C_customer_id == <<"c", "u", "s", "t", "o", "m", "e", "r", "_", "i", "d">>
C_total == <<"t", "o", "t", "a", "l">>
C_order_id == <<"o", "r", "d", "e", "r", "_", "i", "d">>
T_products == <<"p", "r", "o", "d", "u", "c", "t", "s">>
C_price == <<"p", "r", "i", "c", "e">>

ForeignKey(cols, to, tocols) ==
  [constrained_columns |-> cols, referred_table |-> to, referred_columns |-> tocols]

\* the snapshot of the example database: keys in inspector.get_table_names() order
_get_schema ==
  [keys |-> <<T_customers, T_orders, T_order_items, T_products>>,
   tab |-> (T_customers :> [columns |-> <<C_id, C_first_name, C_city>>,
                            foreign_keys |-> <<>>])
        @@ (T_orders :> [columns |-> <<C_id, C_customer_id, C_total>>,
                         foreign_keys |->
                           <<ForeignKey(<<C_customer_id>>, T_customers, <<C_id>>)>>])
        @@ (T_order_items :> [columns |-> <<C_id, C_order_id>>,
                              foreign_keys |->
                                <<ForeignKey(<<C_order_id>>, T_orders, <<C_id>>)>>])
        @@ (T_products :> [columns |-> <<C_id, C_price>>, foreign_keys |-> <<>>])]

\* table in self.schema
InSchema(t) == t \in DOMAIN schema.tab

(***************************************************************************)
(* SQLQueryPipeline.step1_identify_tables: the table list computed from    *)
(* the oracle's response                                                   *)
(***************************************************************************)
\* the backquote character (U+0060), which a TLA+ string cannot hold
BQ == "BQ"

response_clean(resp) == replace(replace(strip(resp), "\n", <<" ">>), BQ, <<>>)

step1_identify_tables(q, resp) ==
  LET rc == response_clean(resp)
      named == IF contains(rc, <<",">>)
                 THEN StripAll(splitOn(rc, ","))
                 ELSE SelectSeq(schema.keys,
                                LAMBDA t : contains(lower(rc), lower(t)))
      valid_tables == SelectSeq(named, InSchema)
      query_lower == lower(q)
      guessed == SelectSeq(schema.keys,
                   LAMBDA t : \/ contains(query_lower, lower(t))
                              \/ \E w \in {splitOn(lower(t), "_")[i] :
                                             i \in 1..Len(splitOn(lower(t), "_"))} :
                                    contains(query_lower, w))
  IN IF valid_tables = <<>> THEN guessed ELSE valid_tables

(***************************************************************************)
(* SQLQueryPipeline.step2_analyze_joins                                    *)
(***************************************************************************)
JoinEdge(t1, t2, fk) ==
  [from_table |-> t1, to_table |-> t2,
   from_column |-> fk.constrained_columns[1], to_column |-> fk.referred_columns[1]]

\* the edges of one pair without the test table1 != table2
JoinsOfPair_same_table(t1, t2) ==
  LET fks == SelectSeq(schema.tab[t1].foreign_keys,
                       LAMBDA fk : fk.referred_table = t2)
  IN [k \in 1..Len(fks) |-> JoinEdge(t1, t2, fks[k])]

\* the edges the inner loop appends for one (table1, table2) pair
JoinsOfPair(t1, t2) ==
  IF t1 = t2 THEN <<>>
  ELSE LET fks == SelectSeq(schema.tab[t1].foreign_keys,
                            LAMBDA fk : fk.referred_table = t2)
       IN [k \in 1..Len(fks) |-> JoinEdge(t1, t2, fks[k])]

step2_analyze_joins(ts) ==
  IF Len(ts) > 1
    THEN Concat([i \in 1..Len(ts) |->
                   Concat([j \in 1..Len(ts) |-> JoinsOfPair(ts[i], ts[j])])])
    ELSE <<>>

(***************************************************************************)
(* SQLQueryPipeline.step3_select_columns: the column list computed from    *)
(* the oracle's response (no oracle call is made for an empty table list)  *)
(***************************************************************************)
S_name == <<"n", "a", "m", "e">>

\* the default branch takes this many leading columns of each table
FirstColumns == 3

ColumnsOf(ts, keep(_)) ==
  Concat([i \in 1..Len(ts) |-> SelectSeq(schema.tab[ts[i]].columns, keep)])

step3_select_columns(q, ts, resp) ==
  LET rc == response_clean(resp)
      named == IF contains(rc, <<",">>)
                 THEN StripAll(splitOn(rc, ","))
                 ELSE ColumnsOf(ts, LAMBDA c : contains(lower(rc), lower(c)))
      query_lower == lower(q)
      fallback == IF contains(query_lower, S_name)
                    THEN ColumnsOf(ts, LAMBDA c : contains(lower(c), S_name))
                    ELSE Concat([i \in 1..Len(ts) |->
                           prefix(schema.tab[ts[i]].columns, FirstColumns)])
  IN IF ts = <<>> THEN <<>>
     ELSE IF named = <<>> THEN fallback ELSE named

(***************************************************************************)
(* extract_sql_condition (query_pipeline.py): the WHERE fragment computed  *)
(* from the oracle's response.  The regular expression                     *)
(*   ([\w\.]+\s+(LIKE|=|>|<|<=|>=|!=)\s+\'?[^\n\r\']+\'?)   (IGNORECASE)   *)
(* is matched as re.search matches it: leftmost start, greedy runs, the    *)
(* alternatives in order, backtracking over the whitespace before the      *)
(* value.                                                                  *)
(***************************************************************************)
Digits == {"0", "1", "2", "3", "4", "5", "6", "7", "8", "9"}

\* \w
IsWordChar(c) == c \in LowerSet \cup UpperSet \cup Digits \cup {"_"}

\* [\w\.]
IsWordDot(c) == IsWordChar(c) \/ c = "."

\* \s
IsWS(c) == c \in WS

\* [^\n\r\']
IsPlain(c) == c \notin {"\n", "\r", "'"}

\* the last index of the maximal run of characters satisfying P that starts at i
\* (i - 1 when s[i] does not satisfy P or i is past the end)
RunEnd(s, i, P(_)) ==
  LET bad == {j \in i..Len(s) : ~P(s[j])}
  IN IF bad = {} THEN Len(s) ELSE SetMin(bad) - 1

\* the first of the alternatives ms, in order, that matches (its end is not 0)
FirstAlternative(ms) ==
  LET hits == {a \in 1..Len(ms) : ms[a].end # 0}
  IN IF hits = {} THEN ms[1] ELSE ms[SetMin(hits)]

\* re.search from p: the leftmost position where Match matches, 0 when none does
search(s, p, Match(_, _)) ==
  LET starts == {i \in p..Len(s) : Match(s, i).end # 0}
  IN IF starts = {} THEN 0 ELSE SetMin(starts)

\* the matches of a pattern at every position of s
matches(s, Match(_, _)) == [i \in 1..Len(s) |-> Match(s, i)]

\* the leftmost position from p that holds a match, 0 when none does
first_match(ms, p) ==
  LET starts == {i \in p..Len(ms) : ms[i].end # 0}
  IN IF starts = {} THEN 0 ELSE SetMin(starts)

\* the groups of the leftmost match from p, then those of the matches found
\* scanning on from its end
RECURSIVE scan(_, _)
scan_at(ms, i) == IF i = 0 THEN <<>> ELSE ms[i].groups \o scan(ms, ms[i].end + 1)
scan(ms, p) == scan_at(ms, first_match(ms, p))

\* re.findall
findall(s, Match(_, _)) == scan(matches(s, Match), 1)

\* the first candidate that is present; each candidate is <<value>> or <<>>
FirstFound(cands) ==
  LET hits == {a \in 1..Len(cands) : cands[a] # <<>>}
  IN cands[SetMin(hits)][1]

S_LIKE == <<"L", "I", "K", "E">>

\* (LIKE|=|>|<|<=|>=|!=), in the order the alternatives are tried
OpAlts == <<S_LIKE, <<"=">>, <<">">>, <<"<">>, <<"<", "=">>, <<">", "=">>, <<"!", "=">>>>

OpMatches(s, p, op) ==
  p + Len(op) - 1 <= Len(s) /\ upper(SubSeq(s, p, p + Len(op) - 1)) = op

\* the end of a match of  \s+\'?[^\n\r\']+\'?  starting at e; 0 when there is none
CondTailEnd(s, e) ==
  LET v == RunEnd(s, e, IsWS)
      Close(y) == IF y < Len(s) /\ s[y + 1] = "'" THEN y + 1 ELSE y
      Try(x) ==
        IF x + 2 <= Len(s) /\ s[x + 1] = "'" /\ IsPlain(s[x + 2])
          THEN Close(RunEnd(s, x + 2, IsPlain))
        ELSE IF x + 1 <= Len(s) /\ IsPlain(s[x + 1])
          THEN Close(RunEnd(s, x + 1, IsPlain))
        ELSE 0
      good == {x \in e..v : Try(x) # 0}
  IN IF good = {} THEN 0 ELSE Try(SetMax(good))

\* the end of a match of the whole pattern starting at i; 0 when there is none
CondMatchEnd(s, i) ==
  IF ~IsWordDot(s[i]) THEN 0
  ELSE LET k == RunEnd(s, i, IsWordDot)
           w == RunEnd(s, k + 1, IsWS)
           alts == {a \in 1..Len(OpAlts) :
                      /\ OpMatches(s, w + 1, OpAlts[a])
                      /\ CondTailEnd(s, w + 1 + Len(OpAlts[a])) # 0}
       IN IF w < k + 1 \/ alts = {} THEN 0
          ELSE CondTailEnd(s, w + 1 + Len(OpAlts[SetMin(alts)]))

\* s.splitlines(): lines end at \n, \r or \r\n; no empty last line
splitlines(s) ==
  LET IsBreak(i) == s[i] = "\n" \/ (s[i] = "\r" /\ ~(i < Len(s) /\ s[i + 1] = "\n"))
      ps == PiecesBetween(s, {i \in 1..Len(s) : IsBreak(i)})
      drop_cr(l) == IF l # <<>> /\ l[Len(l)] = "\r" /\ Len(l) < Len(s)
                      THEN SubSeq(l, 1, Len(l) - 1) ELSE l
      ls == [k \in 1..Len(ps) |-> IF k < Len(ps) THEN drop_cr(ps[k]) ELSE ps[k]]
  IN IF ls[Len(ls)] = <<>> THEN SubSeq(ls, 1, Len(ls) - 1) ELSE ls

\* the operators of the line scan (case-sensitive)
LineOps == {S_LIKE, <<"=">>, <<">">>, <<"<">>, <<"!", "=">>}

\* a response of fewer tokens than this is used whole
ShortResponseTokens == 10

\* the pattern at i, as a match
CondMatch(s, i) == [end |-> CondMatchEnd(s, i), groups |-> <<>>]

\* tier 1: the text of the leftmost match of the pattern, which starts at i
condition_match(s, i) == IF i = 0 THEN <<>> ELSE <<SubSeq(s, i, CondMatchEnd(s, i))>>

\* tier 2: the first stripped line holding an operator, double quotes removed
condition_line(lines) ==
  LET hits == {i \in 1..Len(lines) : \E op \in LineOps : contains(lines[i], op)}
  IN IF hits = {} THEN <<>> ELSE <<replace(lines[SetMin(hits)], "\"", <<>>)>>

\* the variant of tier 3 that has no length test
condition_short_any_length(s) == <<replace(strip(s), "\"", <<>>)>>

\* tier 3: a short response whole, double quotes removed; otherwise ''
condition_short(s) ==
  IF Len(split(s)) < ShortResponseTokens THEN <<replace(strip(s), "\"", <<>>)>> ELSE <<<<>>>>

extract_sql_condition(answer) ==
  FirstFound(<<condition_match(answer, search(answer, 1, CondMatch)),
               condition_line(StripAll(splitlines(answer))),
               condition_short(answer)>>)

(***************************************************************************)
(* SQLQueryPipeline.step4_build_sql, the assembly part: the SELECT, FROM,  *)
(* JOIN and WHERE clauses joined by single spaces                          *)
(***************************************************************************)
S_JOIN == <<"J", "O", "I", "N">>
S_SELECT_ == <<"S", "E", "L", "E", "C", "T", " ">>
S_SELECT_STAR == <<"S", "E", "L", "E", "C", "T", " ", "*">>
S_FROM_ == <<"F", "R", "O", "M", " ">>
S_JOIN_ == <<"J", "O", "I", "N", " ">>
S__ON_ == <<" ", "O", "N", " ">>
S__EQ_ == <<" ", "=", " ">>
S_WHERE_ == <<"W", "H", "E", "R", "E", " ">>
S_COMMA_SP == <<",", " ">>

\* col in self.schema[table]['columns']
HasColumn(t, c) == \E i \in 1..Len(schema.tab[t].columns) : schema.tab[t].columns[i] = c

\* the column prefixed with the last table of the list that has it
prefixed_column_last_owner(ts, col) ==
  LET owners == {i \in 1..Len(ts) : HasColumn(ts[i], col)}
  IN IF owners = {} THEN col ELSE ts[SetMax(owners)] \o <<".">> \o col

\* the column prefixed with the first table of the list that has it
prefixed_column(ts, col) ==
  LET owners == {i \in 1..Len(ts) : HasColumn(ts[i], col)}
  IN IF owners = {} THEN col ELSE ts[SetMin(owners)] \o <<".">> \o col

select_clause(ts, cols) ==
  IF cols # <<>>
    THEN S_SELECT_ \o join(S_COMMA_SP, [i \in 1..Len(cols) |-> prefixed_column(ts, cols[i])])
    ELSE S_SELECT_STAR

\* a FROM clause naming the last table instead of the first
from_clause_last(ts) == S_FROM_ \o ts[Len(ts)]

from_clause(ts) == S_FROM_ \o ts[1]

\* a JOIN clause that names the referencing table after the keyword
join_clause_from_table(j) ==
  S_JOIN_ \o j.from_table \o S__ON_ \o j.from_table \o <<".">> \o j.from_column
    \o S__EQ_ \o j.to_table \o <<".">> \o j.to_column

join_clause(j) ==
  S_JOIN_ \o j.to_table \o S__ON_ \o j.from_table \o <<".">> \o j.from_column
    \o S__EQ_ \o j.to_table \o <<".">> \o j.to_column

\* the string step4_build_sql assembles from its inputs and the WHERE fragment
build_sql(ts, js, cols, wc) ==
  LET sql_parts == <<select_clause(ts, cols), from_clause(ts)>>
                     \o [i \in 1..Len(js) |-> join_clause(js[i])]
                     \o (IF wc # <<>> THEN <<S_WHERE_ \o wc>> ELSE <<>>)
  IN join(<<" ">>, sql_parts)

(***************************************************************************)
(* SQLQueryPipeline._validate_sql_semantics.  re.findall is modelled as it *)
(* scans: at each position the alternatives in order, the next scan        *)
(* starting after the match.                                               *)
(***************************************************************************)
KeywordAt(s, p, kw) ==
  p + Len(kw) - 1 <= Len(s) /\ upper(SubSeq(s, p, p + Len(kw) - 1)) = kw

\* KW\s+(\w+) at p: the match's group and end, end 0 when there is no match
KeywordWord(s, p, kw) ==
  LET w == RunEnd(s, p + Len(kw), IsWS)
      e == RunEnd(s, w + 1, IsWordChar)
  IN IF KeywordAt(s, p, kw) /\ w >= p + Len(kw) /\ e >= w + 1
       THEN [end |-> e, groups |-> <<SubSeq(s, w + 1, e)>>]
       ELSE [end |-> 0, groups |-> <<>>]

\* (\w+)\. at p
WordDot(s, p) ==
  LET k == RunEnd(s, p, IsWordChar)
  IN IF k >= p /\ k < Len(s) /\ s[k + 1] = "."
       THEN [end |-> k + 1, groups |-> <<SubSeq(s, p, k)>>]
       ELSE [end |-> 0, groups |-> <<>>]

\* FROM\s+(\w+)|JOIN\s+(\w+)|(\w+)\.  at p
TableMatch(s, p) ==
  FirstAlternative(<<KeywordWord(s, p, S_FROM), KeywordWord(s, p, S_JOIN), WordDot(s, p)>>)

\* the non-empty groups of re.findall of the table pattern
mentioned_tables(s) == findall(s, TableMatch)

\* SELECT\s+(.+?)\s+FROM at p: the end of the match, 0 when there is none
SelectFromEnd(s, p) ==
  LET w == RunEnd(s, p + 6, IsWS)
      Stops(g) == {x \in g..(Len(s) - 1) :
                     /\ \A j \in g..x : s[j] # "\n"
                     /\ IsWS(s[x + 1])
                     /\ KeywordAt(s, RunEnd(s, x + 1, IsWS) + 1, S_FROM)}
      gs == {g \in (p + 7)..(w + 1) : Stops(g) # {}}
  IN IF ~KeywordAt(s, p, S_SELECT) \/ gs = {} THEN 0
     ELSE RunEnd(s, SetMin(Stops(SetMax(gs))) + 1, IsWS) + 4

\* (\w+)\.(\w+) at p
PairMatch(s, p) ==
  LET k == RunEnd(s, p, IsWordChar)
      e == RunEnd(s, k + 2, IsWordChar)
  IN IF k >= p /\ k < Len(s) /\ s[k + 1] = "." /\ e >= k + 2
       THEN [end |-> e, groups |-> <<[table |-> SubSeq(s, p, k), column |-> SubSeq(s, k + 2, e)]>>]
       ELSE [end |-> 0, groups |-> <<>>]

\* SELECT\s+(.+?)\s+FROM|(\w+)\.(\w+)  at p: a SELECT ... FROM match yields no pair
ColumnMatch(s, p) ==
  FirstAlternative(<<[end |-> SelectFromEnd(s, p), groups |-> <<>>], PairMatch(s, p)>>)

\* the table.column pairs of re.findall of the column pattern
mentioned_columns(s) == findall(s, ColumnMatch)

\* every mentioned table is in the schema
tables_exist(ts) == \A i \in 1..Len(ts) : InSchema(ts[i])

\* no pair names a column missing from a table of the schema
columns_exist(ps) ==
  \A i \in 1..Len(ps) : ~(InSchema(ps[i].table) /\ ~HasColumn(ps[i].table, ps[i].column))

validate_sql_semantics(s) ==
  tables_exist(mentioned_tables(s)) /\ columns_exist(mentioned_columns(s))

(***************************************************************************)
(* AdvancedSQLPipeline: cleaning the oracle's answer                       *)
(***************************************************************************)
Fence == <<BQ, BQ, BQ>>
S_sql == <<"s", "q", "l">>
S_SQL == <<"S", "Q", "L">>

\* the literal k occurs in s at p (case-sensitive)
LiteralAt(s, p, k) == p >= 1 /\ p + Len(k) - 1 <= Len(s) /\ SubSeq(s, p, p + Len(k) - 1) = k

\* the end of the match of  ```sql\n?|```\n?  at p, where a fence starts
FenceEnd(s, p) ==
  LET a == IF LiteralAt(s, p + 3, S_sql) THEN p + 5 ELSE p + 2
  IN IF a < Len(s) /\ s[a + 1] = "\n" THEN a + 1 ELSE a

\* re.sub(r'```sql\n?|```\n?', '', s), scanning from p
RECURSIVE remove_markdown(_, _)
remove_markdown(s, p) ==
  LET starts == {i \in p..Len(s) : LiteralAt(s, i, Fence)}
  IN IF starts = {} THEN SubSeq(s, p, Len(s))
     ELSE SubSeq(s, p, SetMin(starts) - 1)
            \o remove_markdown(s, FenceEnd(s, SetMin(starts)) + 1)

\* re.search(r'```(?:sql)?\s*\n?(.*?)\n?```', s, DOTALL | IGNORECASE):
\* group 1 as a sequence of one element, the empty sequence when there is no match
code_block(s) ==
  LET GroupStart(i) ==
        RunEnd(s, IF KeywordAt(s, i + 3, S_SQL) THEN i + 6 ELSE i + 3, IsWS) + 1
      Closing(i) == {j \in GroupStart(i)..Len(s) : LiteralAt(s, j, Fence)}
      opens == {i \in 1..Len(s) : LiteralAt(s, i, Fence) /\ Closing(i) # {}}
  IN IF opens = {} THEN <<>>
     ELSE LET g == GroupStart(SetMin(opens))
              j == SetMin(Closing(SetMin(opens)))
          IN <<SubSeq(s, g, IF j - 1 >= g /\ s[j - 1] = "\n" THEN j - 2 ELSE j - 1)>>

\* KW\s+.+ matches at p (DOTALL): the keyword, whitespace, and one more character
KeywordRest(s, p, kw) ==
  KeywordAt(s, p, kw) /\ p + Len(kw) + 1 <= Len(s) /\ IsWS(s[p + Len(kw)])

\* the keywords that make a response count as SQL
sql_markers == <<S_SELECT, S_WITH, S_FROM, S_JOIN>>

\* the text from the leftmost SELECT\s+.+ or WITH\s+.+, which starts at i
SelectOrWith(s, i) ==
  [end |-> IF KeywordRest(s, i, S_SELECT) \/ KeywordRest(s, i, S_WITH) THEN Len(s) ELSE 0,
   groups |-> <<>>]

sql_part(resp, i) == IF i = 0 THEN <<>> ELSE <<strip(SubSeq(resp, i, Len(resp)))>>

\* the response when it holds one of the markers
marked_response(resp) ==
  IF \E k \in 1..Len(sql_markers) : contains(upper(resp), sql_markers[k])
    THEN FirstFound(<<sql_part(resp, search(resp, 1, SelectOrWith)),
                      <<strip(rstrip(strip(resp), ";"))>>>>)
    ELSE strip(resp)

\* group 1 of the code block, stripped
stripped_block(block) == IF block = <<>> THEN <<>> ELSE <<strip(block[1])>>

_extract_sql_from_advanced_response(resp) ==
  FirstFound(<<stripped_block(code_block(resp)), <<marked_response(resp)>>>>)

\* the text _clean_advanced_sql goes on with after the markdown is removed
advanced_sql_text(plain) ==
  IF ~startswith(upper(strip(plain)), S_SELECT)
    THEN _extract_sql_from_advanced_response(plain)
    ELSE plain

_clean_advanced_sql(raw) ==
  join(<<" ">>, split(rstrip(strip(advanced_sql_text(remove_markdown(raw, 1))), ";")))

S_LEFT == <<"L", "E", "F", "T">>
S_RIGHT == <<"R", "I", "G", "H", "T">>
S_INNER == <<"I", "N", "N", "E", "R">>
S_FULL == <<"F", "U", "L", "L">>

\* KW\s+JOIN\s+(\w+) at p
KeywordJoinWord(s, p, kw) ==
  LET w == RunEnd(s, p + Len(kw), IsWS)
  IN IF KeywordAt(s, p, kw) /\ w >= p + Len(kw)
       THEN KeywordWord(s, w + 1, S_JOIN)
       ELSE [end |-> 0, groups |-> <<>>]

\* (?:FROM|JOIN|LEFT\s+JOIN|RIGHT\s+JOIN|INNER\s+JOIN|FULL\s+JOIN)\s+(\w+) at p
MainTableMatch(s, p) ==
  FirstAlternative(<<KeywordWord(s, p, S_FROM), KeywordWord(s, p, S_JOIN),
                     KeywordJoinWord(s, p, S_LEFT), KeywordJoinWord(s, p, S_RIGHT),
                     KeywordJoinWord(s, p, S_INNER), KeywordJoinWord(s, p, S_FULL)>>)

\* set(l): the distinct elements of a list
set(l) == {l[i] : i \in 1..Len(l)}

_extract_main_tables(sql) == set(findall(sql, MainTableMatch))

\* list(S): the elements of a set in one of the orders iteration can produce
Orderings(S) ==
  {f \in [1..Cardinality(S) -> S] : \A x \in S : \E i \in 1..Cardinality(S) : f[i] = x}

S_Multiple_tables == <<"M", "u", "l", "t", "i", "p", "l", "e", " ", "t", "a", "b", "l", "e", "s">>

\* the target_table values of the success record: the names joined in the order
\* the set is iterated, or the fixed text when there is none
target_table_values(main_tables) ==
  IF main_tables = {} THEN {S_Multiple_tables}
  ELSE {join(<<",", " ">>, o) : o \in Orderings(main_tables)}

(***************************************************************************)
(* SimpleSQLPipeline: identifying the table and cleaning the oracle's      *)
(* answer                                                                  *)
(***************************************************************************)
\* the first table of the list satisfying P, None (the empty sequence) otherwise
FirstTable(keys, P(_)) ==
  LET hits == {i \in 1..Len(keys) : P(keys[i])}
  IN IF hits = {} THEN <<>> ELSE keys[SetMin(hits)]

_identify_table(user_question, resp) ==
  LET available_tables == _get_schema.keys
      table_name == strip(lower(strip(resp)))
      InQuestion(t) == contains(lower(user_question), lower(t))
  IN IF InSchema(table_name) THEN table_name
     ELSE FirstTable(available_tables, InQuestion)

\* s.endswith(k)
endswith(s, k) == Len(s) >= Len(k) /\ SubSeq(s, Len(s) - Len(k) + 1, Len(s)) = k

\* s.replace(old, new) for a non-empty old, scanning from p
RECURSIVE replace_str(_, _, _, _)
replace_str(s, p, old, new) ==
  LET starts == {i \in p..Len(s) : LiteralAt(s, i, old)}
  IN IF starts = {} THEN SubSeq(s, p, Len(s))
     ELSE SubSeq(s, p, SetMin(starts) - 1) \o new
            \o replace_str(s, SetMin(starts) + Len(old), old, new)

S_GROUP == <<"G", "R", "O", "U", "P">>
S_ORDER == <<"O", "R", "D", "E", "R">>
S_HAVING == <<"H", "A", "V", "I", "N", "G">>
S_LIMIT == <<"L", "I", "M", "I", "T">>
S_AS == <<"A", "S">>
S_AND == <<"A", "N", "D">>
S_OR == <<"O", "R">>
S_BY == <<"B", "Y">>
S_GROUP_BY == <<"G", "R", "O", "U", "P", " ", "B", "Y">>
S_ORDER_BY == <<"O", "R", "D", "E", "R", " ", "B", "Y">>
S_CONCAT_ == <<"C", "O", "N", "C", "A", "T", "(">>

\* the keywords that make a following line count as SQL in Method 1
sql_keywords == {S_FROM, S_WHERE, S_GROUP, S_ORDER, S_HAVING, S_LIMIT, S_AS, S_AND, S_OR}

\* Method 1: the first line starting with SELECT and the lines after it that
\* look like SQL, up to the first empty line or line that does not
method1_lines(lines) ==
  LET ls == StripAll(lines)
      selects == {i \in 1..Len(ls) : startswith(upper(ls[i]), S_SELECT)}
      f == SetMin(selects)
      LooksSql(k) ==
        \/ \E kw \in sql_keywords : contains(upper(ls[k]), kw)
        \/ endswith(ls[k], <<",">>)
        \/ startswith(ls[k], <<"(">>)
        \/ endswith(ls[k - 1], <<",">>)
      stops == {k \in (f + 1)..Len(ls) : ls[k] = <<>> \/ ~LooksSql(k)}
  IN IF selects = {} THEN <<>>
     ELSE SubSeq(ls, f, IF stops = {} THEN Len(ls) ELSE SetMin(stops) - 1)

\* KW1\s+KW2 at p: the end of the match, 0 when there is none
TwoKeywordsEnd(s, p, kw1, kw2) ==
  LET w == RunEnd(s, p + Len(kw1), IsWS)
  IN IF KeywordAt(s, p, kw1) /\ w >= p + Len(kw1) /\ KeywordAt(s, w + 1, kw2)
       THEN w + Len(kw2) ELSE 0

\* \s+.+? after a clause keyword ending at e: the end of the match (the
\* whitespace and one more character), 0 when there is none
ClauseTailEnd(s, e) ==
  LET w == RunEnd(s, e + 1, IsWS)
  IN IF e = 0 \/ w < e + 1 THEN 0
     ELSE IF w < Len(s) THEN w + 1
     ELSE IF w >= e + 2 THEN w
     ELSE 0

\* KW\s+.+? at p, as a match
OneKeywordClause(s, p, kw) ==
  [end |-> ClauseTailEnd(s, IF KeywordAt(s, p, kw) THEN p + Len(kw) - 1 ELSE 0)]

\* KW1\s+KW2\s+.+? at p, as a match
TwoKeywordClause(s, p, kw1, kw2) == [end |-> ClauseTailEnd(s, TwoKeywordsEnd(s, p, kw1, kw2))]

\* (?:WHERE|GROUP\s+BY|ORDER\s+BY|HAVING|LIMIT)\s+.+? at p: the end of the first
\* alternative that matches, 0 when none does
ClauseAt(s, p) ==
  FirstAlternative(<<OneKeywordClause(s, p, S_WHERE), TwoKeywordClause(s, p, S_GROUP, S_BY),
                     TwoKeywordClause(s, p, S_ORDER, S_BY), OneKeywordClause(s, p, S_HAVING),
                     OneKeywordClause(s, p, S_LIMIT)>>).end

\* the clause after the whitespace that ends at w
ClauseAfterSpace(s, e, w) == IF w < e + 1 THEN 0 ELSE ClauseAt(s, w + 1)

\* one iteration of (?:\s+(?:WHERE|...)\s+.+?) after position e: its end, 0
\* when it does not match
ClauseEnd(s, e) == ClauseAfterSpace(s, e, RunEnd(s, e + 1, IsWS))

\* the end of the greedy repetition of clauses after position e
RECURSIVE ClausesEnd(_, _)
ClausesAfter(s, e, n) == IF n = 0 THEN e ELSE ClausesEnd(s, n)
ClausesEnd(s, e) == ClausesAfter(s, e, ClauseEnd(s, e))

\* SELECT\s+.+?FROM\s+\w+ at p: the end of the match, 0 when there is none
SelectFromTableEnd(s, p) ==
  LET w == RunEnd(s, p + 6, IsWS)
      Froms(x) == {f \in (x + 2)..Len(s) : KeywordWord(s, f, S_FROM).end # 0}
      good == {x \in (p + 6)..w : Froms(x) # {}}
  IN IF ~KeywordAt(s, p, S_SELECT) \/ good = {} THEN 0
     ELSE KeywordWord(s, SetMin(Froms(SetMax(good))), S_FROM).end

\* Method 2: re.search of the SELECT ... FROM ... pattern; the match with its
\* whitespace normalised, as a sequence of one element, the empty sequence when
\* there is none
SelectFromTable(s, p) == [end |-> SelectFromTableEnd(s, p), groups |-> <<>>]

method2_at(s, i) ==
  IF i = 0 THEN <<>>
  ELSE <<join(<<" ">>, split(strip(SubSeq(s, i, ClausesEnd(s, SelectFromTableEnd(s, i))))))>>

method2_match(s) == method2_at(s, search(s, 1, SelectFromTable))

\* Method 3: the whitespace-normalised lines holding both SELECT and FROM
method3_lines(lines) ==
  SelectSeq([i \in 1..Len(lines) |-> join(<<" ">>, split(lines[i]))],
            LAMBDA l : contains(upper(l), S_SELECT) /\ contains(upper(l), S_FROM))

\* ' '.join(lines) when there is a line
joined_lines(lines) == IF lines = <<>> THEN <<>> ELSE <<join(<<" ">>, lines)>>

\* the first of the lines when there is one
first_line(lines) == IF lines = <<>> THEN <<>> ELSE <<lines[1]>>

extract_methods(resp, lines) ==
  FirstFound(<<joined_lines(method1_lines(lines)), method2_match(resp),
               first_line(method3_lines(lines)), <<strip(resp)>>>>)

_extract_sql_from_response(resp) == extract_methods(resp, splitOn(strip(resp), "\n"))

\* the keywords that make a line count as SQL in _clean_sql
clean_keywords == {S_FROM, S_WHERE, S_GROUP_BY, S_ORDER_BY, S_HAVING, S_LIMIT}

\* the stripped non-empty lines up to the first one that does not look like SQL
kept_lines(lines) ==
  LET ls == SelectSeq(StripAll(lines), LAMBDA l : l # <<>>)
      LooksSql(l) ==
        \/ startswith(upper(l), S_SELECT)
        \/ \E kw \in clean_keywords : contains(upper(l), kw)
        \/ contains(upper(l), S_CONCAT_)
        \/ endswith(l, <<",">>)
        \/ startswith(l, S_AND) \/ startswith(l, S_OR)
      stops == {k \in 1..Len(ls) : ~LooksSql(ls[k])}
  IN SubSeq(ls, 1, IF stops = {} THEN Len(ls) ELSE SetMin(stops) - 1)

\* the first argument of the quote replacement as Python reads it: the text
\* between the two triple quotes
S_quote_fix == <<",", " ", "\"", "'", "\"", ")", ".", "r", "e", "p", "l", "a", "c", "e", "(">>

\* the text _clean_sql goes on with after the markdown is removed
simple_sql_text(plain) ==
  IF ~startswith(upper(strip(plain)), S_SELECT)
    THEN _extract_sql_from_response(plain)
    ELSE strip(plain)

\* the variant that returns nothing when no line is kept
joined_or_nothing(trimmed) ==
  FirstFound(<<joined_lines(kept_lines(splitOn(trimmed, "\n"))), <<<<>>>>>>)

\* the kept lines joined, or the text itself when no line is kept
joined_or_whole(trimmed) ==
  FirstFound(<<joined_lines(kept_lines(splitOn(trimmed, "\n"))), <<trimmed>>>>)

\* sql_extracted before the line loop: trimmed, without trailing ; and ]
trimmed_sql_text(raw) ==
  rstrip(rstrip(strip(simple_sql_text(remove_markdown(raw, 1))), ";"), "]")

_clean_sql(raw) ==
  replace_str(joined_or_whole(trimmed_sql_text(raw)), 1, S_quote_fix, <<"'">>)

\* the line _generate_sql keeps of an answer that does not start with SELECT
select_line(resp, lines) ==
  LET selects == {i \in 1..Len(lines) : startswith(upper(strip(lines[i])), S_SELECT)}
  IN IF ~startswith(strip(upper(resp)), S_SELECT) /\ selects # {}
       THEN strip(lines[SetMin(selects)])
       ELSE resp

\* the oracle's answer as _generate_sql cleans it
generated_sql(resp) == _clean_sql(select_line(resp, splitOn(resp, "\n")))

_generate_sql(raw) == generated_sql(strip(raw))

(***************************************************************************)
(* Validator harness: a candidate string is built from pieces, then one of *)
(* the three validators is applied to it.                                  *)
(***************************************************************************)
P_SelectStarFromT == <<"S", "E", "L", "E", "C", "T", " ", "*", " ", "F", "R", "O", "M", " ", "t">>
P_selectAFromU == <<"s", "e", "l", "e", "c", "t", " ", "a", " ", "f", "r", "o", "m", " ", "u">>
P_Explain == <<"E", "X", "P", "L", "A", "I", "N", " ">>
P_With == <<"W", "I", "T", "H", " ">>
P_NlSp == <<"\n", " ">>
P_Semi == <<";">>
P_Drop == <<"D", "R", "O", "P">>
P_Delete == <<"D", "e", "l", "e", "t", "e">>
P_insert == <<"i", "n", "s", "e", "r", "t">>
P_update_count == <<"u", "p", "d", "a", "t", "e", "_", "c", "o", "u", "n", "t">>
P_exec_time == <<"e", "x", "e", "c", "_", "t", "i", "m", "e">>
P_WhereXq == <<" ", "W", "H", "E", "R", "E", " ", "x", "=", "'">>
P_Quote == <<"'">>
P_whereY == <<" ", "w", "h", "e", "r", "e", " ", "y", "=", "1">>
P_LPar == <<"(">>
P_RPar == <<")">>
P_FenceQuote == <<BQ, BQ, BQ, "'">>

Pieces ==
  {P_SelectStarFromT, P_selectAFromU, P_Explain, P_With, P_NlSp, P_Semi, P_Drop,
   P_Delete, P_insert, P_update_count, P_exec_time, P_WhereXq, P_Quote, P_whereY,
   P_LPar, P_RPar, P_FenceQuote}

NoVerdict == [fn |-> "none", ok |-> FALSE, msg |-> "", detail |-> <<>>]

Verdict(fn, r) == [fn |-> fn, ok |-> r.ok, msg |-> r.msg, detail |-> r.detail]

\* no entry script running
LIdle ==
  /\ entry = "none" /\ running = "off"
  /\ user_input = <<>> /\ chat_history = <<>>
  /\ current_analyzer = "None" /\ console = "nothing"

\* the pipeline part of the state while only the validators are exercised
PIdle ==
  /\ pipeline = "none"
  /\ schema = _get_schema
  /\ pc = "idle"
  /\ user_query = <<>>
  /\ tables = <<>>
  /\ joins = <<>>
  /\ columns = <<>>
  /\ sql_query = <<>>
  /\ response = [pending |-> TRUE]
  /\ raised = FALSE
  /\ llm_log = <<>>
  /\ check_log = <<>>
  /\ db_log = <<>>
  /\ pool = 0
  /\ where_response = <<>> /\ where_clause = <<>>
  /\ target_table = <<>>

VInit == vin = <<>> /\ vn = 0 /\ vres = NoVerdict /\ PIdle /\ LIdle

\* the caller extends the candidate string by one piece
VAppend ==
  /\ vres.fn = "none"
  /\ vn < MaxPieces
  /\ \E p \in Pieces : vin' = vin \o p
  /\ vn' = vn + 1
  /\ UNCHANGED <<vres, pvars, lvars>>

VValidateSqlSyntax ==
  /\ vres.fn = "none"
  /\ vres' = Verdict("validate_sql_syntax", validate_sql_syntax(vin))
  /\ UNCHANGED <<vin, vn, pvars, lvars>>

VAdvancedIsSafe ==
  /\ vres.fn = "none"
  /\ vres' = Verdict("Advanced_is_safe_sql", Advanced_is_safe_sql(vin))
  /\ UNCHANGED <<vin, vn, pvars, lvars>>

VSimpleIsSafe ==
  /\ vres.fn = "none"
  /\ vres' = Verdict("Simple_is_safe_sql", Simple_is_safe_sql(vin))
  /\ UNCHANGED <<vin, vn, pvars, lvars>>

VNext == VAppend \/ VValidateSqlSyntax \/ VAdvancedIsSafe \/ VSimpleIsSafe

SpecV == VInit /\ [][VNext]_vars

(***************************************************************************)
(* The statement-mode Extractor applied to candidate strings: as the       *)
(* oracle's whole answer, and wrapped in a markdown fence                  *)
(***************************************************************************)
\* ```sql newline s newline ```
fenced(s) == Fence \o S_sql \o <<"\n">> \o s \o <<"\n">> \o Fence

S_prose_before == <<"H", "e", "r", "e", " ", "i", "s", " ", "t", "h", "e", " ", "q", "u", "e", "r", "y", ":", "\n">>
S_prose_after == <<"\n", "I", "t", " ", "l", "i", "s", "t", "s", " ", "a", "l", "l", " ", "r", "o", "w", "s", ".">>

\* an answer with the statement in a fenced block between two lines of prose
in_prose(s) == S_prose_before \o fenced(s) \o S_prose_after

\* _clean_advanced_sql is run on vin, on vin in a fence, and on vin in a fence
\* between prose
VCleanAdvancedSql ==
  /\ vres.fn = "none"
  /\ vres' = [fn |-> "_clean_advanced_sql",
              plain |-> _clean_advanced_sql(vin),
              in_fence |-> _clean_advanced_sql(fenced(vin)),
              in_prose |-> _clean_advanced_sql(in_prose(vin))]
  /\ UNCHANGED <<vin, vn, pvars, lvars>>

\* SimpleSQLPipeline._clean_sql is run on vin; text is what its line loop reads
VCleanSql ==
  /\ vres.fn = "none"
  /\ vres' = [fn |-> "_clean_sql",
              text |-> trimmed_sql_text(vin),
              result |-> _clean_sql(vin)]
  /\ UNCHANGED <<vin, vn, pvars, lvars>>

CNext == VAppend \/ VCleanAdvancedSql \/ VCleanSql

SpecC == VInit /\ [][CNext]_vars

(***************************************************************************)
(* step2_analyze_joins applied to candidate table lists, over a snapshot   *)
(* with a two-column key, two keys between the same pair of tables and a   *)
(* key of a table to itself                                                *)
(***************************************************************************)
MaxTables == 3

C_referrer_id == <<"r", "e", "f", "e", "r", "r", "e", "r", "_", "i", "d">>
C_parent_id == <<"p", "a", "r", "e", "n", "t", "_", "i", "d">>

\* a snapshot as _get_schema builds it from such a database
keyed_schema ==
  [keys |-> <<T_customers, T_orders, T_order_items, T_products>>,
   tab |-> (T_customers :> [columns |-> <<C_id, C_first_name, C_city>>,
                            foreign_keys |-> <<>>])
        @@ (T_orders :> [columns |-> <<C_id, C_customer_id, C_referrer_id>>,
                         foreign_keys |->
                           <<ForeignKey(<<C_customer_id>>, T_customers, <<C_id>>),
                             ForeignKey(<<C_referrer_id>>, T_customers, <<C_id>>)>>])
        @@ (T_order_items :> [columns |-> <<C_id, C_order_id, C_customer_id, C_parent_id>>,
                              foreign_keys |->
                                <<ForeignKey(<<C_order_id, C_customer_id>>, T_orders,
                                             <<C_id, C_customer_id>>),
                                  ForeignKey(<<C_parent_id>>, T_order_items, <<C_id>>)>>])
        @@ (T_products :> [columns |-> <<C_id, C_price>>, foreign_keys |-> <<>>])]

\* an instance over that snapshot, no call running
JInit ==
  /\ vin = <<>> /\ vn = 0 /\ vres = NoVerdict
  /\ pipeline = "none"
  /\ schema = keyed_schema
  /\ pc = "idle"
  /\ user_query = <<>> /\ tables = <<>> /\ joins = <<>> /\ columns = <<>>
  /\ sql_query = <<>>
  /\ response = [pending |-> TRUE]
  /\ raised = FALSE
  /\ llm_log = <<>> /\ check_log = <<>> /\ db_log = <<>> /\ pool = 0
  /\ where_response = <<>> /\ where_clause = <<>>
  /\ target_table = <<>>
  /\ LIdle

\* the caller extends the candidate list by one table of the snapshot
JAppendTable ==
  /\ vres.fn = "none"
  /\ vn < MaxTables
  /\ \E i \in 1..Len(schema.keys) : vin' = Append(vin, schema.keys[i])
  /\ vn' = vn + 1
  /\ UNCHANGED <<vres, pvars, lvars>>

JAnalyzeJoins ==
  /\ vres.fn = "none"
  /\ vres' = [fn |-> "step2_analyze_joins", joins |-> step2_analyze_joins(vin)]
  /\ UNCHANGED <<vin, vn, pvars, lvars>>

JNext == JAppendTable \/ JAnalyzeJoins

SpecJ == JInit /\ [][JNext]_vars

(***************************************************************************)
(* The environment: the questions asked, the oracle's answers and the      *)
(* database's behaviour                                                    *)
(***************************************************************************)
MaxRows == 2

Q_show_customers == <<"s", "h", "o", "w", " ", "c", "u", "s", "t", "o", "m", "e", "r", "s">>
Q_list_names == <<"l", "i", "s", "t", " ", "n", "a", "m", "e", "s">>
Q_orders_names == <<"o", "r", "d", "e", "r", "s", " ", "w", "i", "t", "h", " ", "c", "u", "s", "t", "o", "m", "e", "r", " ", "n", "a", "m", "e", "s">>
Q_hello == <<"h", "e", "l", "l", "o">>

Questions == {Q_show_customers, Q_list_names, Q_orders_names, Q_hello}

R_customers == <<"c", "u", "s", "t", "o", "m", "e", "r", "s">>
R_orders == <<"o", "r", "d", "e", "r", "s">>
R_orders_customers == <<"o", "r", "d", "e", "r", "s", ",", "c", "u", "s", "t", "o", "m", "e", "r", "s">>
R_customers_orders == <<"c", "u", "s", "t", "o", "m", "e", "r", "s", ",", " ", "o", "r", "d", "e", "r", "s">>
R_orders_products == <<"o", "r", "d", "e", "r", "s", ",", "p", "r", "o", "d", "u", "c", "t", "s">>
R_order_items_orders == <<"o", "r", "d", "e", "r", "_", "i", "t", "e", "m", "s", ",", " ", "o", "r", "d", "e", "r", "s">>
R_items_orders_customers == <<"o", "r", "d", "e", "r", "_", "i", "t", "e", "m", "s", ",", "o", "r", "d", "e", "r", "s", ",", "c", "u", "s", "t", "o", "m", "e", "r", "s">>
R_unknown == <<"I", " ", "d", "o", " ", "n", "o", "t", " ", "k", "n", "o", "w">>

\* answers to the table-identification prompt
TableAnswers ==
  {R_customers, R_orders, R_orders_customers, R_customers_orders, R_orders_products,
   R_order_items_orders, R_items_orders_customers, R_unknown}

R_first_name_city == <<"f", "i", "r", "s", "t", "_", "n", "a", "m", "e", ",", "c", "i", "t", "y">>
R_count == <<"C", "O", "U", "N", "T", "(", "*", ")">>
R_total == <<BQ, "t", "o", "t", "a", "l", BQ>>

\* answers to the column-selection prompt
R_orders_city_total == <<"o", "r", "d", "e", "r", "s", ".", "c", "i", "t", "y", ",", "t", "o", "t", "a", "l">>

ColumnAnswers == {R_first_name_city, R_count, R_total, R_orders_city_total, R_unknown}

W_city == <<"c", "i", "t", "y", " ", "=", " ", "'", "N", "Y", "C", "'">>
W_month == <<"M", "O", "N", "T", "H", "(", "o", "r", "d", "e", "r", "_", "d", "a", "t", "e", ")", " ", "=", " ", "1">>
W_price == <<"p", "r", "o", "d", "u", "c", "t", "s", ".", "c", "o", "s", "t", " ", ">", " ", "9">>
W_updated == <<"u", "p", "d", "a", "t", "e", "d", "_", "a", "t", " ", ">", " ", "1">>

W_like == <<"f", "i", "r", "s", "t", "_", "n", "a", "m", "e", " ", "L", "I", "K", "E", " ", "'", "A", "%", "'">>
W_city_and_total == <<"c", "i", "t", "y", " ", "=", " ", "'", "N", "Y", "C", "'", " ", "A", "N", "D", " ", "t", "o", "t", "a", "l", " ", ">", " ", "5">>
W_total_and_city == <<"t", "o", "t", "a", "l", " ", ">", " ", "5", " ", "A", "N", "D", " ", "c", "i", "t", "y", " ", "=", " ", "'", "N", "Y", "C", "'">>

\* answers to the WHERE-extraction prompt
W_quotes == <<"\"", "\"">>
W_lines == <<"C", "o", "n", "d", "i", "t", "i", "o", "n", ":", "\n", "n", "a", "m", "e", "=", "\"", "B", "o", "b", "\"">>
W_none == <<"n", "o", "n", "e">>
W_prose == <<"T", "h", "e", "r", "e", " ", "a", "r", "e", " ", "n", "o", " ", "f", "i", "l", "t", "e", "r", "i", "n", "g", " ", "c", "o", "n", "d", "i", "t", "i", "o", "n", "s", " ", "i", "n", " ", "t", "h", "i", "s", " ", "q", "u", "e", "r", "y", " ", "a", "t", " ", "a", "l", "l">>

WhereAnswers ==
  {<<>>, W_city, W_month, W_price, W_updated, W_like, W_city_and_total, W_total_and_city,
   W_quotes, W_lines, W_none, W_prose}

A_plain == <<"S", "E", "L", "E", "C", "T", " ", "*", " ", "F", "R", "O", "M", " ", "c", "u", "s", "t", "o", "m", "e", "r", "s">>
A_fenced == <<BQ, BQ, BQ, "s", "q", "l", "\n", "S", "E", "L", "E", "C", "T", " ", "f", "i", "r", "s", "t", "_", "n", "a", "m", "e", " ", "F", "R", "O", "M", " ", "c", "u", "s", "t", "o", "m", "e", "r", "s", ";", "\n", BQ, BQ, BQ>>
A_prose == <<"H", "e", "r", "e", ":", "\n", "S", "E", "L", "E", "C", "T", " ", "*", " ", "F", "R", "O", "M", " ", "o", "r", "d", "e", "r", "s", " ", "J", "O", "I", "N", " ", "c", "u", "s", "t", "o", "m", "e", "r", "s", " ", "O", "N", " ", "o", "r", "d", "e", "r", "s", ".", "c", "u", "s", "t", "o", "m", "e", "r", "_", "i", "d", " ", "=", " ", "c", "u", "s", "t", "o", "m", "e", "r", "s", ".", "i", "d">>
A_with == <<"W", "I", "T", "H", " ", "t", " ", "A", "S", " ", "(", "S", "E", "L", "E", "C", "T", " ", "1", ")", " ", "S", "E", "L", "E", "C", "T", " ", "*", " ", "F", "R", "O", "M", " ", "t">>
A_drop == <<"D", "R", "O", "P", " ", "T", "A", "B", "L", "E", " ", "o", "r", "d", "e", "r", "s">>
A_two == <<"S", "E", "L", "E", "C", "T", " ", "*", " ", "F", "R", "O", "M", " ", "o", "r", "d", "e", "r", "s", ";", " ", "S", "E", "L", "E", "C", "T", " ", "1">>
A_refuse == <<"I", " ", "c", "a", "n", "n", "o", "t", " ", "a", "n", "s", "w", "e", "r">>
A_inline == <<"H", "e", "r", "e", ":", " ", "S", "E", "L", "E", "C", "T", " ", "*", " ", "F", "R", "O", "M", " ", "c", "u", "s", "t", "o", "m", "e", "r", "s", " ", "W", "H", "E", "R", "E", " ", "c", "i", "t", "y", " ", "=", " ", "'", "N", "Y", "C", "'">>
A_lines == <<"S", "E", "L", "E", "C", "T", " ", "*", "\n", "F", "R", "O", "M", " ", "o", "r", "d", "e", "r", "s", "\n", "L", "I", "M", "I", "T", " ", "1", "0">>

\* answers to the prompt of AdvancedSQLPipeline._generate_advanced_sql
AdvancedAnswers == {A_plain, A_fenced, A_prose, A_with, A_drop, A_two, A_refuse}

\* answers to the prompt of SimpleSQLPipeline._generate_sql
SimpleAnswers == {A_plain, A_fenced, A_inline, A_lines, A_drop, A_two, A_refuse}

\* answers to the prompt of SimpleSQLPipeline._identify_table
TableNameAnswers == {R_customers, R_orders, R_unknown}

\* how the single connection of AdvancedSQLPipeline._execute_query can go
AdvancedOutcomes ==
  [kind : {"connect_error", "statement_error", "fetch_error"}, n : {0}]
    \cup [kind : {"rows"}, n : 0..MaxRows]

\* how the single connection of SimpleSQLPipeline._execute_query can go
SimpleOutcomes ==
  [kind : {"connect_error", "explain_error", "statement_error", "fetch_error"}, n : {0}]
    \cup [kind : {"rows"}, n : 0..MaxRows]

\* the exception text of a failed oracle call and of a failed database call
OracleError == <<"oracle error">>
DatabaseError == <<"database error">>

\* how a connection used for one statement can go
ExplainOutcomes == {"ok", "connect_error", "statement_error"}

\* how the execution of the final statement can go
ExecuteOutcomes ==
  [kind : {"connect_error", "set_error", "statement_error", "fetch_error"}, n : {0}]
    \cup [kind : {"rows"}, n : 0..MaxRows]

IsRows(o) == o.kind = "rows"

\* the rows a successful execution returns
Rows(o) == [i \in 1..o.n |-> i]

\* the engine's pool after the connections of log were released: create_engine
\* is called with its defaults, so a released connection stays open in the
\* pool and the next engine.connect() takes it from there
pool_after(p, log) ==
  IF \E i \in 1..Len(log) : log[i].kind = "open" /\ log[i].ok THEN 1 ELSE p

LlmCall(call, ok) == [call |-> call, ok |-> ok]
Check(kind, sql, ok) == [check |-> kind, sql |-> sql, ok |-> ok]
Db(kind, stmt, ok) == [kind |-> kind, stmt |-> stmt, ok |-> ok]

(***************************************************************************)
(* SQLQueryPipeline.process_query                                          *)
(***************************************************************************)
\* the record of the except branch
error_record(e) ==
  [tables |-> <<>>, joins |-> <<>>, columns |-> <<>>, sql_query |-> <<>>,
   results |-> <<>>, error |-> e, validation_passed |-> FALSE]

\* the record of the normal return
success_record(ts, js, cols, sql, res) ==
  [tables |-> ts, joins |-> js, columns |-> cols, sql_query |-> sql,
   results |-> res, validation_passed |-> TRUE]

\* the layers with the database round-trip first
step4_layers_explain_first == <<"explain", "syntax", "semantic">>

\* the validation layers of step4_build_sql, in the order they run
step4_layers == <<"syntax", "explain", "semantic">>

S_EXPLAIN_ == <<"E", "X", "P", "L", "A", "I", "N", " ">>

\* what the database sees of _validate_sql_with_explain
explain_trace(sql, outcome) ==
  IF outcome = "connect_error" THEN <<Db("open", <<>>, FALSE)>>
  ELSE <<Db("open", <<>>, TRUE),
         Db("explain", S_EXPLAIN_ \o sql, outcome = "ok"),
         Db("close", <<>>, TRUE)>>

S_SET_TIMEOUT == <<"S", "E", "T", " ", "S", "E", "S", "S", "I", "O", "N", " ", "M", "A", "X", "_", "E", "X", "E", "C", "U", "T", "I", "O", "N", "_", "T", "I", "M", "E", " ", "=", " ", "3", "0", "0", "0", "0">>

\* a step 5 whose connection is not released when the statement fails
step5_trace_unreleased(sql, outcome) ==
  IF outcome.kind = "connect_error" THEN <<Db("open", <<>>, FALSE)>>
  ELSE IF outcome.kind = "set_error"
    THEN <<Db("open", <<>>, TRUE), Db("set", S_SET_TIMEOUT, FALSE), Db("close", <<>>, TRUE)>>
  ELSE IF outcome.kind = "statement_error"
    THEN <<Db("open", <<>>, TRUE), Db("set", S_SET_TIMEOUT, TRUE), Db("execute", sql, FALSE)>>
  ELSE <<Db("open", <<>>, TRUE), Db("set", S_SET_TIMEOUT, TRUE), Db("execute", sql, TRUE),
         Db("fetch", <<>>, outcome.kind # "fetch_error"), Db("close", <<>>, TRUE)>>

\* what the database sees of step5_execute_query
step5_trace(sql, outcome) ==
  IF outcome.kind = "connect_error" THEN <<Db("open", <<>>, FALSE)>>
  ELSE IF outcome.kind = "set_error"
    THEN <<Db("open", <<>>, TRUE), Db("set", S_SET_TIMEOUT, FALSE), Db("close", <<>>, TRUE)>>
  ELSE <<Db("open", <<>>, TRUE), Db("set", S_SET_TIMEOUT, TRUE),
         Db("execute", sql, outcome.kind # "statement_error")>>
       \o (IF outcome.kind = "statement_error" THEN <<>>
           ELSE <<Db("fetch", <<>>, outcome.kind # "fetch_error")>>)
       \o <<Db("close", <<>>, TRUE)>>

\* what step5_execute_query returns: the rows, or [] when anything raised
step5_execute_query(outcome) == IF IsRows(outcome) THEN Rows(outcome) ELSE <<>>

\* an assembler that accepts an empty table list
step4_accepts_no_tables(ts) == FALSE

\* step4_build_sql raises at once for an empty table list
step4_has_no_tables(ts) == ts = <<>>

\* process_query returns rec
Return(rec) == response' = rec /\ pc' = "returned" /\ raised' = FALSE

\* a safety check whose verdict is ignored
AfterSafety_unchecked(ok, failure, next) ==
  /\ check_log' = Append(check_log, Check("safety", sql_query, ok))
  /\ pc' = next /\ UNCHANGED <<response, raised>>

\* the verdict of a safety check: the failure record, or on to the next step
AfterSafety(ok, failure, next) ==
  /\ check_log' = Append(check_log, Check("safety", sql_query, ok))
  /\ IF ~ok THEN Return(failure)
     ELSE pc' = next /\ UNCHANGED <<response, raised>>

\* a call that begins by building the snapshot again, from a changed database
Start_rebuilding_schema ==
  /\ pipeline # "none"
  /\ pc \in {"idle", "returned"}
  /\ \E q \in Questions : user_query' = q
  /\ pc' = "step1"
  /\ schema' = keyed_schema
  /\ tables' = <<>> /\ joins' = <<>> /\ columns' = <<>> /\ sql_query' = <<>>
  /\ where_response' = <<>> /\ where_clause' = <<>> /\ target_table' = <<>>
  /\ response' = [pending |-> TRUE]
  /\ llm_log' = <<>> /\ check_log' = <<>> /\ db_log' = <<>>
  /\ UNCHANGED <<pipeline, raised, pool, vvars, lvars>>

\* a caller asks a question
Start ==
  /\ pipeline # "none"
  /\ pc \in {"idle", "returned"}
  /\ \E q \in Questions : user_query' = q
  /\ pc' = "step1"
  /\ tables' = <<>> /\ joins' = <<>> /\ columns' = <<>> /\ sql_query' = <<>>
  /\ where_response' = <<>> /\ where_clause' = <<>> /\ target_table' = <<>>
  /\ response' = [pending |-> TRUE]
  /\ llm_log' = <<>> /\ check_log' = <<>> /\ db_log' = <<>>
  /\ UNCHANGED <<pipeline, schema, raised, pool, vvars, lvars>>

\* steps 1 and 2, and steps 3 and 4 when no table was identified
QStep1 ==
  /\ pipeline = "SQLQueryPipeline" /\ pc = "step1"
  /\ \/ /\ llm_log' = Append(llm_log, LlmCall("identify_tables", FALSE))
        /\ Return(error_record(OracleError))
        /\ UNCHANGED <<tables, joins>>
     \/ \E resp \in TableAnswers :
          /\ llm_log' = Append(llm_log, LlmCall("identify_tables", TRUE))
          /\ tables' = step1_identify_tables(user_query, resp)
          /\ joins' = step2_analyze_joins(tables')
          /\ IF step4_has_no_tables(tables')
               THEN Return(error_record(<<"No tables identified for the query">>))
               ELSE pc' = "step3" /\ UNCHANGED <<response, raised>>
  /\ UNCHANGED <<pipeline, schema, user_query, columns, sql_query, where_response, where_clause,
                 target_table, check_log, db_log, pool, vvars, lvars>>

\* step 3 for a non-empty table list
QStep3 ==
  /\ pipeline = "SQLQueryPipeline" /\ pc = "step3"
  /\ \/ /\ llm_log' = Append(llm_log, LlmCall("select_columns", FALSE))
        /\ Return(error_record(OracleError))
        /\ UNCHANGED columns
     \/ \E resp \in ColumnAnswers :
          /\ llm_log' = Append(llm_log, LlmCall("select_columns", TRUE))
          /\ columns' = step3_select_columns(user_query, tables, resp)
          /\ pc' = "step4"
          /\ UNCHANGED <<response, raised>>
  /\ UNCHANGED <<pipeline, schema, user_query, tables, joins, sql_query, where_response, where_clause,
                 target_table, check_log, db_log, pool, vvars, lvars>>

\* step 4 up to the assembled string
QStep4Build ==
  /\ pipeline = "SQLQueryPipeline" /\ pc = "step4"
  /\ \/ /\ llm_log' = Append(llm_log, LlmCall("extract_where", FALSE))
        /\ Return(error_record(OracleError))
        /\ UNCHANGED <<where_response, where_clause, sql_query>>
     \/ \E resp \in WhereAnswers :
          /\ llm_log' = Append(llm_log, LlmCall("extract_where", TRUE))
          /\ where_response' = strip(resp)
          /\ where_clause' = extract_sql_condition(where_response')
          /\ sql_query' = build_sql(tables, joins, columns, where_clause')
          /\ pc' = "step4_validate"
          /\ UNCHANGED <<response, raised>>
  /\ UNCHANGED <<pipeline, schema, user_query, tables, joins, columns, target_table,
                 check_log, db_log, pool, vvars, lvars>>

\* the layer that runs next
NextLayer == step4_layers[Len(check_log) + 1]

\* a layer's verdict: the next layer, step 5 after the last one, or the raise
AfterLayer(kind, ok, e) ==
  /\ check_log' = Append(check_log, Check(kind, sql_query, ok))
  /\ IF ~ok THEN Return(error_record(e))
     ELSE /\ pc' = IF Len(check_log) + 1 = Len(step4_layers) THEN "step5" ELSE pc
          /\ UNCHANGED <<response, raised>>

\* the verdict v of validate_sql_syntax
AfterSyntax(v) == AfterLayer("syntax", v.ok, <<"SQL syntax error: ", v.msg>>)

\* LAYER 1: validate_sql_syntax
QLayerSyntax ==
  /\ pipeline = "SQLQueryPipeline" /\ pc = "step4_validate" /\ NextLayer = "syntax"
  /\ AfterSyntax(validate_sql_syntax(sql_query))
  /\ UNCHANGED <<pipeline, schema, user_query, tables, joins, columns, sql_query,
                 where_response, where_clause, target_table, llm_log, db_log, pool, vvars, lvars>>

\* LAYER 2: _validate_sql_with_explain
QLayerExplain ==
  /\ pipeline = "SQLQueryPipeline" /\ pc = "step4_validate" /\ NextLayer = "explain"
  /\ \E outcome \in ExplainOutcomes :
       /\ db_log' = db_log \o explain_trace(sql_query, outcome)
       /\ pool' = pool_after(pool, db_log')
       /\ AfterLayer("explain", outcome = "ok", <<"SQL query failed database validation">>)
  /\ UNCHANGED <<pipeline, schema, user_query, tables, joins, columns, sql_query,
                 where_response, where_clause, target_table, llm_log, vvars, lvars>>

\* LAYER 3: _validate_sql_semantics
QLayerSemantic ==
  /\ pipeline = "SQLQueryPipeline" /\ pc = "step4_validate" /\ NextLayer = "semantic"
  /\ AfterLayer("semantic", validate_sql_semantics(sql_query),
                <<"SQL query failed semantic validation">>)
  /\ UNCHANGED <<pipeline, schema, user_query, tables, joins, columns, sql_query,
                 where_response, where_clause, target_table, llm_log, db_log, pool, vvars, lvars>>

\* step 5 and the normal return
QStep5 ==
  /\ pipeline = "SQLQueryPipeline" /\ pc = "step5"
  /\ \E outcome \in ExecuteOutcomes :
       /\ db_log' = db_log \o step5_trace(sql_query, outcome)
       /\ pool' = pool_after(pool, db_log')
       /\ Return(success_record(tables, joins, columns, sql_query,
                                step5_execute_query(outcome)))
  /\ UNCHANGED <<pipeline, schema, user_query, tables, joins, columns, sql_query,
                 where_response, where_clause, target_table, llm_log, check_log, vvars, lvars>>

(***************************************************************************)
(* AdvancedSQLPipeline.process_query                                       *)
(***************************************************************************)
Advanced_error_response(error_message) ==
  [success |-> FALSE, user_question |-> <<>>, target_table |-> <<>>,
   sql_query |-> <<>>, results |-> <<>>, result_count |-> 0,
   error |-> error_message]

\* the record of the normal return of both single-statement pipelines
success_response(q, t, sql, res) ==
  [success |-> TRUE, user_question |-> q, target_table |-> t, sql_query |-> sql,
   results |-> res, result_count |-> Len(res)]

\* what the database sees of AdvancedSQLPipeline._execute_query
Advanced_execute_trace(sql, outcome) ==
  IF outcome.kind = "connect_error" THEN <<Db("open", <<>>, FALSE)>>
  ELSE <<Db("open", <<>>, TRUE), Db("execute", sql, outcome.kind # "statement_error")>>
       \o (IF outcome.kind = "statement_error" THEN <<>>
           ELSE <<Db("fetch", <<>>, outcome.kind # "fetch_error")>>)
       \o <<Db("close", <<>>, TRUE)>>

\* _generate_advanced_sql
AGenerate ==
  /\ pipeline = "AdvancedSQLPipeline" /\ pc = "step1"
  /\ \/ /\ llm_log' = Append(llm_log, LlmCall("generate_sql", FALSE))
        /\ Return(Advanced_error_response(OracleError))
        /\ UNCHANGED sql_query
     \/ \E resp \in AdvancedAnswers :
          /\ llm_log' = Append(llm_log, LlmCall("generate_sql", TRUE))
          /\ sql_query' = _clean_advanced_sql(resp)
          /\ pc' = "step2"
          /\ UNCHANGED <<response, raised>>
  /\ UNCHANGED <<pipeline, schema, user_query, tables, joins, columns, where_response, where_clause,
                 target_table, check_log, db_log, pool, vvars, lvars>>

\* the safety check
AValidate ==
  /\ pipeline = "AdvancedSQLPipeline" /\ pc = "step2"
  /\ AfterSafety(Advanced_is_safe_sql(sql_query).ok,
                 Advanced_error_response(<<"Generated SQL failed safety check">>), "step3")
  /\ UNCHANGED <<pipeline, schema, user_query, tables, joins, columns, sql_query,
                 where_response, where_clause, target_table, llm_log, db_log, pool, vvars, lvars>>

\* _execute_query, _extract_main_tables and the return
AExecute ==
  /\ pipeline = "AdvancedSQLPipeline" /\ pc = "step3"
  /\ \E outcome \in AdvancedOutcomes :
       /\ db_log' = db_log \o Advanced_execute_trace(sql_query, outcome)
       /\ pool' = pool_after(pool, db_log')
       /\ IF IsRows(outcome)
            THEN \E t \in target_table_values(_extract_main_tables(sql_query)) :
                   Return(success_response(user_query, t, sql_query, Rows(outcome)))
            ELSE Return(Advanced_error_response(DatabaseError))
  /\ UNCHANGED <<pipeline, schema, user_query, tables, joins, columns, sql_query,
                 where_response, where_clause, target_table, llm_log, check_log, vvars, lvars>>

(***************************************************************************)
(* SimpleSQLPipeline.process_query                                         *)
(***************************************************************************)
Simple_error_response(error_message) ==
  [success |-> FALSE, error |-> error_message, results |-> <<>>, result_count |-> 0]

\* an execution that sends the statement without the EXPLAIN before it
Simple_execute_trace_unexplained(sql, outcome) ==
  IF outcome.kind = "connect_error" THEN <<Db("open", <<>>, FALSE)>>
  ELSE <<Db("open", <<>>, TRUE), Db("execute", sql, outcome.kind # "statement_error")>>
       \o (IF outcome.kind = "statement_error" THEN <<>>
           ELSE <<Db("fetch", <<>>, outcome.kind # "fetch_error")>>)
       \o <<Db("close", <<>>, TRUE)>>

\* what the database sees of SimpleSQLPipeline._execute_query
Simple_execute_trace(sql, outcome) ==
  IF outcome.kind = "connect_error" THEN <<Db("open", <<>>, FALSE)>>
  ELSE IF outcome.kind = "explain_error"
    THEN <<Db("open", <<>>, TRUE), Db("explain", S_EXPLAIN_ \o sql, FALSE),
           Db("close", <<>>, TRUE)>>
  ELSE <<Db("open", <<>>, TRUE), Db("explain", S_EXPLAIN_ \o sql, TRUE),
         Db("execute", sql, outcome.kind # "statement_error")>>
       \o (IF outcome.kind = "statement_error" THEN <<>>
           ELSE <<Db("fetch", <<>>, outcome.kind # "fetch_error")>>)
       \o <<Db("close", <<>>, TRUE)>>

\* the text of the exception _execute_query raises
Simple_execute_error(outcome) ==
  IF outcome.kind = "explain_error" THEN <<"SQL syntax error: ">> \o DatabaseError
  ELSE DatabaseError

\* a variant of step 1 that goes on to step 2 without a table
SIdentify_going_on ==
  /\ pipeline = "SimpleSQLPipeline" /\ pc = "step1"
  /\ \/ /\ llm_log' = Append(llm_log, LlmCall("identify_table", FALSE))
        /\ Return(Simple_error_response(OracleError))
        /\ UNCHANGED target_table
     \/ \E resp \in TableNameAnswers :
          /\ llm_log' = Append(llm_log, LlmCall("identify_table", TRUE))
          /\ target_table' = _identify_table(user_query, resp)
          /\ pc' = "step2" /\ UNCHANGED <<response, raised>>
  /\ UNCHANGED <<pipeline, schema, user_query, tables, joins, columns, sql_query,
                 where_response, where_clause, check_log, db_log, pool, vvars, lvars>>

\* Step 1: _identify_table
SIdentify ==
  /\ pipeline = "SimpleSQLPipeline" /\ pc = "step1"
  /\ \/ /\ llm_log' = Append(llm_log, LlmCall("identify_table", FALSE))
        /\ Return(Simple_error_response(OracleError))
        /\ UNCHANGED target_table
     \/ \E resp \in TableNameAnswers :
          /\ llm_log' = Append(llm_log, LlmCall("identify_table", TRUE))
          /\ target_table' = _identify_table(user_query, resp)
          /\ IF target_table' = <<>>
               THEN Return(Simple_error_response(
                             <<"Could not identify which table you're asking about">>))
               ELSE pc' = "step2" /\ UNCHANGED <<response, raised>>
  /\ UNCHANGED <<pipeline, schema, user_query, tables, joins, columns, sql_query,
                 where_response, where_clause, check_log, db_log, pool, vvars, lvars>>

\* Step 2: _generate_sql
SGenerate ==
  /\ pipeline = "SimpleSQLPipeline" /\ pc = "step2"
  /\ \/ /\ llm_log' = Append(llm_log, LlmCall("generate_sql", FALSE))
        /\ Return(Simple_error_response(OracleError))
        /\ UNCHANGED sql_query
     \/ \E resp \in SimpleAnswers :
          /\ llm_log' = Append(llm_log, LlmCall("generate_sql", TRUE))
          /\ sql_query' = _generate_sql(resp)
          /\ pc' = "step3"
          /\ UNCHANGED <<response, raised>>
  /\ UNCHANGED <<pipeline, schema, user_query, tables, joins, columns, where_response, where_clause,
                 target_table, check_log, db_log, pool, vvars, lvars>>

\* Step 3: the safety check
SValidate ==
  /\ pipeline = "SimpleSQLPipeline" /\ pc = "step3"
  /\ AfterSafety(Simple_is_safe_sql(sql_query).ok,
                 Simple_error_response(<<"Generated SQL failed safety check">>), "step4")
  /\ UNCHANGED <<pipeline, schema, user_query, tables, joins, columns, sql_query,
                 where_response, where_clause, target_table, llm_log, db_log, pool, vvars, lvars>>

\* Step 4: _execute_query and the return
SExecute ==
  /\ pipeline = "SimpleSQLPipeline" /\ pc = "step4"
  /\ \E outcome \in SimpleOutcomes :
       /\ db_log' = db_log \o Simple_execute_trace(sql_query, outcome)
       /\ pool' = pool_after(pool, db_log')
       /\ IF IsRows(outcome)
            THEN Return(success_response(user_query, target_table, sql_query,
                                         Rows(outcome)))
            ELSE Return(Simple_error_response(Simple_execute_error(outcome)))
  /\ UNCHANGED <<pipeline, schema, user_query, tables, joins, columns, sql_query,
                 where_response, where_clause, target_table, llm_log, check_log, vvars, lvars>>

(***************************************************************************)
(* The pipelines                                                           *)
(***************************************************************************)
Pipelines == {"SQLQueryPipeline", "AdvancedSQLPipeline", "SimpleSQLPipeline"}

\* the state after construction
Init ==
  /\ pipeline \in Pipelines
  /\ schema = _get_schema
  /\ pc = "idle"
  /\ user_query = <<>>
  /\ tables = <<>> /\ joins = <<>> /\ columns = <<>> /\ sql_query = <<>>
  /\ where_response = <<>> /\ where_clause = <<>> /\ target_table = <<>>
  /\ response = [pending |-> TRUE]
  /\ raised = FALSE
  /\ llm_log = <<>> /\ check_log = <<>> /\ db_log = <<>> /\ pool = 0
  /\ vin = <<>> /\ vn = 0 /\ vres = NoVerdict
  /\ LIdle

Next ==
  \/ Start
  \/ QStep1 \/ QStep3 \/ QStep4Build
  \/ QLayerSyntax \/ QLayerExplain \/ QLayerSemantic
  \/ QStep5
  \/ AGenerate \/ AValidate \/ AExecute
  \/ SIdentify \/ SGenerate \/ SValidate \/ SExecute

Spec == Init /\ [][Next]_vars

(***************************************************************************)
(* The interactive loops of main.py, adv_main.py and simple_main.py        *)
(***************************************************************************)
\* the longest chat history kept
MaxTurns == 2

Entries == {"main.py", "adv_main.py", "simple_main.py"}

I_exit == <<"e", "x", "i", "t">>
I_Exit_padded == <<" ", "E", "x", "i", "t", " ">>
I_schema == <<"s", "c", "h", "e", "m", "a">>
I_help == <<"h", "e", "l", "p">>
I_history == <<"h", "i", "s", "t", "o", "r", "y">>
I_clear == <<"c", "l", "e", "a", "r">>
I_blank == <<" ">>
I_question == <<"t", "o", "p", " ", "o", "r", "d", "e", "r", "s">>
I_auto == <<"a", "u", "t", "o">>
I_automatic == <<"a", "u", "t", "o", "m", "a", "t", "i", "c">>

\* the lines typed at the prompt
Inputs == {I_exit, I_Exit_padded, I_schema, I_help, I_history, I_clear, I_blank,
           I_question, I_auto, I_automatic}

\* the methods class ChatHistory defines; calling any other name on an
\* instance raises AttributeError
ChatHistory == {"__init__", "add", "get", "clear"}

\* what SQLQueryPipeline.process_query does to its caller: it returns a record
\* with rows, a record without rows, or raises
SQLQueryPipeline_outcomes == {"rows", "empty", "raise"}

\* what the other two process_query methods do: their try/except turns every
\* failure into a record with success False
Record_outcomes == {"rows", "empty", "failed"}

\* the tuple of prefixes adv_main tests a line against while an analyzer is set
VizPrefixes == {<<"h", "i", "s", "t", "o", "g", "r", "a", "m">>, <<"p", "i", "e">>, <<"s", "c", "a", "t", "t", "e", "r">>, <<"l", "i", "n", "e">>, <<"b", "a", "r">>, <<"b", "o", "x">>, <<"h", "e", "a", "t", "m", "a", "p">>, <<"o", "p", "t", "i", "o", "n", "s">>, <<"s", "u", "m", "m", "a", "r", "y">>, <<"a", "u", "t", "o">>}

\* command.lower().strip().split()[0], for a command that has a word
first_word(command) ==
  LET c == lower(strip(command))
      ws == {i \in 1..Len(c) : c[i] \in WS}
  IN IF ws = {} THEN c ELSE SubSeq(c, 1, SetMin(ws) - 1)

\* handle_visualization_command returns True for every action it knows (a
\* failing plot is reported and still True) and False for any other word
handle_visualization_command(command) == first_word(command) \in VizPrefixes

\* an entry script has built its pipeline and reached its prompt
LInit ==
  /\ vin = <<>> /\ vn = 0 /\ vres = NoVerdict /\ PIdle
  /\ entry \in Entries
  /\ running = "prompt"
  /\ user_input = <<>> /\ chat_history = <<>>
  /\ current_analyzer = "None" /\ console = "welcome"

\* ChatHistory.add
add(h, user, bot) == Append(h, [user |-> user, bot |-> bot])

\* the variant of the try body that stores the turn before it serialises it
main_try_adding_first(h, line, r, display_raises, dumps_raises) ==
  IF r = "raise" \/ display_raises THEN h ELSE add(h, line, r)

\* the history after the try body of main.py's loop: process_query,
\* display_results, json.dumps and, when none of them raised, history.add
main_try(h, line, r, display_raises, dumps_raises) ==
  IF r = "raise" \/ display_raises \/ dumps_raises THEN h ELSE add(h, line, r)

\* one pass of main.py's while loop
main_loop ==
  /\ entry = "main.py" /\ running = "prompt"
  /\ \E line \in Inputs, r \in SQLQueryPipeline_outcomes,
        display_raises \in BOOLEAN, dumps_raises \in BOOLEAN :
       /\ user_input' = line
       /\ IF lower(line) = I_exit
          THEN /\ running' = "ended"
               /\ console' = "chat history"
               /\ UNCHANGED chat_history
          ELSE IF lower(line) = I_schema
          THEN /\ console' = "schema"
               /\ UNCHANGED <<running, chat_history>>
          ELSE /\ Len(chat_history) < MaxTurns
               /\ IF r = "raise" \/ display_raises \/ dumps_raises
                    THEN /\ chat_history' =
                              add(main_try(chat_history, line, r, display_raises, dumps_raises),
                                  line, "Error")
                         /\ console' = "error"
                    ELSE /\ chat_history' =
                              main_try(chat_history, line, r, display_raises, dumps_raises)
                         /\ console' = "results"
               /\ UNCHANGED running
  /\ UNCHANGED <<entry, current_analyzer, vvars, pvars>>

\* the part of adv_main's pass after the reserved commands (and after the
\* message about an invalid plot command, if any): the question goes to
\* process_query, the turn is stored, the result shown, the analyzer set up
adv_main_query(line, r) ==
  /\ Len(chat_history) < MaxTurns
  /\ chat_history' = add(chat_history, line, r)
  /\ IF r = "rows"
     THEN IF "add_analyzer" \in ChatHistory
          THEN current_analyzer' = "DataAnalyzer" /\ console' = "data loaded"
          ELSE current_analyzer' = "None" /\ console' = "analysis error"
     ELSE /\ current_analyzer' = "None"
          /\ console' = IF r = "failed" THEN "failed" ELSE "results"
  /\ UNCHANGED running

\* one pass of adv_main.py's while loop
adv_main_loop ==
  /\ entry = "adv_main.py" /\ running = "prompt"
  /\ \E line \in Inputs, r \in Record_outcomes :
       /\ user_input' = strip(line)
       /\ IF lower(user_input') = I_exit
          THEN /\ running' = "ended" /\ console' = "goodbye"
               /\ UNCHANGED <<chat_history, current_analyzer>>
          ELSE IF lower(user_input') = I_help
          THEN /\ console' = "help"
               /\ UNCHANGED <<running, chat_history, current_analyzer>>
          ELSE IF lower(user_input') = I_history
          THEN /\ IF "show_history" \in ChatHistory
                  THEN running' = running /\ console' = "chat history"
                  ELSE running' = "crashed" /\ console' = "traceback"
               /\ UNCHANGED <<chat_history, current_analyzer>>
          ELSE IF lower(user_input') = I_clear
          THEN /\ chat_history' = <<>>
               /\ current_analyzer' = "None"
               /\ console' = "cleared"
               /\ UNCHANGED running
          ELSE IF lower(user_input') = I_schema
          THEN /\ console' = "schema"
               /\ UNCHANGED <<running, chat_history, current_analyzer>>
          ELSE IF user_input' = <<>>
          THEN UNCHANGED <<running, chat_history, current_analyzer, console>>
          ELSE IF /\ current_analyzer # "None"
                  /\ \E k \in VizPrefixes : startswith(lower(user_input'), k)
          THEN IF handle_visualization_command(user_input')
               THEN /\ console' = "plot"
                    /\ UNCHANGED <<running, chat_history, current_analyzer>>
               ELSE adv_main_query(user_input', r)
          ELSE adv_main_query(user_input', r)
  /\ UNCHANGED <<entry, vvars, pvars>>

\* one pass of simple_main.py's while loop
simple_main_loop ==
  /\ entry = "simple_main.py" /\ running = "prompt"
  /\ \E line \in Inputs, r \in Record_outcomes :
       /\ user_input' = strip(line)
       /\ IF lower(user_input') = I_exit
          THEN running' = "ended" /\ console' = "goodbye"
          ELSE IF lower(user_input') = I_schema
          THEN running' = running /\ console' = "schema"
          ELSE IF user_input' = <<>>
          THEN UNCHANGED <<running, console>>
          ELSE /\ running' = running
               /\ console' = IF r = "failed" THEN "failed" ELSE "results"
  /\ UNCHANGED <<entry, chat_history, current_analyzer, vvars, pvars>>

LNext == main_loop \/ adv_main_loop \/ simple_main_loop

SpecL == LInit /\ [][LNext]_vars

(***************************************************************************)
(* Properties of the validators (under SpecV)                              *)
(***************************************************************************)
\* k occurs in s in some letter case
HasAnyCase(s, k) ==
  \E i \in 1..(Len(s) - Len(k) + 1) : \A j \in 1..Len(k) : UpperChar(s[i + j - 1]) = k[j]

\* a validator has given its verdict on vin
Validated == vres.fn # "none"

\* C1: every validator variant rejects every string that contains DROP, DELETE
\* or INSERT, in any letter case and at any position.
C1_DenylistRejects ==
  (Validated /\ \E k \in {S_DROP, S_DELETE, S_INSERT} : HasAnyCase(vin, k)) => ~vres.ok

\* C1's case: a lower-case insert after a valid SELECT, rejected for the keyword
C1_Witness ==
  /\ vres.fn = "Simple_is_safe_sql"
  /\ vin = P_SelectStarFromT \o P_NlSp \o P_insert
  /\ ~vres.ok
  /\ vres.detail = S_INSERT

\* C2: every validator variant rejects every string that contains a semicolon.
C2_SemicolonRejected == (Validated /\ contains(vin, <<";">>)) => ~vres.ok

\* C3: a validator variant passes a string only if its trimmed, uppercased form
\* starts with SELECT or WITH.
C3_StartsWithSelectOrWith ==
  (Validated /\ vres.ok)
    => startswith(strip(upper(vin)), S_SELECT) \/ startswith(strip(upper(vin)), S_WITH)

(***************************************************************************)
(* Properties of the pipelines (under Spec)                                *)
(***************************************************************************)
Query == "SQLQueryPipeline"

\* the statement of entry i of the database log was sent for real execution
Executed(i) == db_log[i].kind = "execute"

\* the number of checks a statement has to pass before it is executed
ChecksBeforeExecution == IF pipeline = Query THEN 3 ELSE 1

\* every check of this call was made on stmt and passed
PassedFor(stmt) ==
  /\ Len(check_log) = ChecksBeforeExecution
  /\ \A j \in 1..Len(check_log) : check_log[j].sql = stmt /\ check_log[j].ok

C4_ExecutedWasValidated == \A i \in 1..Len(db_log) : Executed(i) => PassedFor(db_log[i].stmt)

\* a step that records a check's verdict changes nothing else of the pipeline
\* and sends at most an EXPLAIN
C4_ValidatorIsPassive ==
  (Len(check_log') = Len(check_log) + 1)
    => /\ schema' = schema
       /\ pipeline' = pipeline
       /\ <<user_query, tables, joins, columns, sql_query, where_response, where_clause,
           target_table>>'
            = <<user_query, tables, joins, columns, sql_query, where_response, where_clause,
              target_table>>
       /\ \A i \in 1..Len(db_log') : db_log'[i].kind \in {"open", "explain", "close"}

\* C4: within one process_query call a statement is sent for real execution
\* only after every check passed for exactly that string, and a validating step
\* never executes the statement (at most an EXPLAIN of it) and leaves the schema
\* snapshot and the rest of the pipeline unchanged.
C4_ValidateBeforeExecute == []C4_ExecutedWasValidated /\ [][C4_ValidatorIsPassive]_vars

\* C4's case: the three layers passed and the statement was executed
C4_Witness ==
  /\ pipeline = Query
  /\ Len(check_log) = 3
  /\ \E i \in 1..Len(db_log) : Executed(i) /\ db_log[i].stmt = sql_query /\ db_log[i].ok

\* some stage of the call failed
StageFailed ==
  \/ \E i \in 1..Len(llm_log) : ~llm_log[i].ok
  \/ \E i \in 1..Len(check_log) : ~check_log[i].ok
  \/ \E i \in 1..Len(db_log) : ~db_log[i].ok
  \/ pipeline = Query /\ tables = <<>>
  \/ pipeline = "SimpleSQLPipeline" /\ target_table = <<>>

HasError(r) == "error" \in DOMAIN r /\ r.error # <<>>

\* the record is marked as passed
MarkedOk(r) == IF pipeline = Query THEN r.validation_passed ELSE r.success

IsFailureRecord(r) ==
  /\ HasError(r)
  /\ r.results = <<>>
  /\ IF pipeline = Query
       THEN /\ r.tables = <<>> /\ r.joins = <<>> /\ r.columns = <<>> /\ r.sql_query = <<>>
            /\ ~r.validation_passed
       ELSE ~r.success /\ r.result_count = 0

IsSuccessRecord(r) ==
  /\ "error" \notin DOMAIN r
  /\ pipeline # Query => r.result_count = Len(r.results)

\* C5: process_query never raises; a failure in any stage gives a record with an
\* error message and empty results (marked as not passed), and a record marked
\* as passed carries no error and the count of its rows.
C5_FailuresAreRecords ==
  pc = "returned"
    => /\ ~raised
       /\ StageFailed => IsFailureRecord(response)
       /\ MarkedOk(response) => IsSuccessRecord(response)

\* the database raised while executing the validated statement
ExecutionFailed == \E i \in 1..Len(db_log) : Executed(i) /\ ~db_log[i].ok

\* C6: when the database raises while executing the validated statement, there
\* is no second attempt and process_query returns a failure: an error message
\* is present, the results are empty and the record is not marked as passed.
C6_ExecutionErrorIsFailure ==
  (pc = "returned" /\ ExecutionFailed)
    => /\ Cardinality({i \in 1..Len(db_log) : Executed(i)}) = 1
       /\ HasError(response)
       /\ response.results = <<>>
       /\ ~MarkedOk(response)

\* step 1 answered and no table was identified
NoTablesIdentified == pipeline = Query /\ llm_log # <<>> /\ llm_log[1].ok /\ tables = <<>>

\* C7: with an empty table list step4_build_sql fails and produces no SQL string
\* (nothing is checked or sent to the database), and process_query returns a
\* failure record with the error set and sql_query and results empty.
C7_EmptyTablesFail ==
  NoTablesIdentified
    => /\ pc = "returned"
       /\ sql_query = <<>> /\ check_log = <<>> /\ db_log = <<>> /\ Len(llm_log) = 1
       /\ HasError(response)
       /\ response.error = <<"No tables identified for the query">>
       /\ response.sql_query = <<>>
       /\ response.results = <<>>
       /\ ~response.validation_passed

\* C7's case: the oracle named no table of the schema for a question naming none
C7_Witness ==
  /\ NoTablesIdentified
  /\ user_query = Q_hello
  /\ pc = "returned"
  /\ response.error = <<"No tables identified for the query">>

\* an EXPLAIN of the statement of entry i succeeded earlier on
ExplainedBefore(i) ==
  \E j \in 1..(i - 1) :
    /\ db_log[j].kind = "explain"
    /\ db_log[j].ok
    /\ db_log[j].stmt = <<"E", "X", "P", "L", "A", "I", "N", " ">> \o db_log[i].stmt

ExplainFailed == \E j \in 1..Len(db_log) : db_log[j].kind = "explain" /\ ~db_log[j].ok

\* C8: where the EXPLAIN pre-check is used, EXPLAIN <query> is issued before the
\* real statement, and when EXPLAIN fails the real statement is never executed
\* and the request ends in a failure response.
C8_ExplainBeforeExecute ==
  pipeline \in {"SimpleSQLPipeline", Query}
    => /\ \A i \in 1..Len(db_log) : Executed(i) => ExplainedBefore(i)
       /\ ExplainFailed
            => /\ \A i \in 1..Len(db_log) : ~Executed(i)
               /\ pc = "returned"
               /\ HasError(response)
               /\ ~MarkedOk(response)

\* C8's case: the EXPLAIN of SimpleSQLPipeline._execute_query failed
C8_Witness ==
  /\ pipeline = "SimpleSQLPipeline"
  /\ ExplainFailed
  /\ check_log # <<>> /\ check_log[1].ok
  /\ pc = "returned"

\* the order the claim gives: lexical, database round-trip, schema
LayerOrder == <<"syntax", "explain", "semantic">>

CheckFailed == \E i \in 1..Len(check_log) : ~check_log[i].ok

\* C9: the checks of step4_build_sql run in the order syntax, EXPLAIN, semantic
\* and stop at the first failure: a string that failed a check reaches no later
\* check, there is no database round-trip after a failed syntax check, and
\* step5_execute_query is never reached after a failed check.
C9_LayersInOrder ==
  pipeline = Query
    => /\ Len(check_log) <= Len(LayerOrder)
       /\ \A i \in 1..Len(check_log) :
            /\ check_log[i].check = LayerOrder[i]
            /\ check_log[i].sql = sql_query
            /\ i < Len(check_log) => check_log[i].ok
       /\ (check_log # <<>> /\ ~check_log[1].ok) => db_log = <<>>
       /\ CheckFailed
            => /\ pc = "returned"
               /\ \A i \in 1..Len(db_log) : db_log[i].kind \in {"open", "explain", "close"}

\* C9's case: the semantic check failed after the two checks before it passed
C9_Witness ==
  /\ pipeline = Query
  /\ Len(check_log) = 3
  /\ check_log[1].ok /\ check_log[2].ok /\ ~check_log[3].ok
  /\ pc = "returned"

S_SELECT_STAR_FROM_ == <<"S", "E", "L", "E", "C", "T", " ", "*", " ", "F", "R", "O", "M", " ">>

\* C10: for a non-empty table list with no joins, no columns and no WHERE
\* fragment the assembled string is exactly SELECT * FROM <first table>.
C10_SelectStarFromFirst ==
  (pipeline = Query /\ sql_query # <<>> /\ tables # <<>> /\ joins = <<>> /\ columns = <<>>
     /\ where_clause = <<>>)
    => sql_query = S_SELECT_STAR_FROM_ \o tables[1]

\* C10's case: two tables without a foreign key between them
C10_Witness ==
  /\ pipeline = Query
  /\ tables = <<T_orders, T_products>>
  /\ joins = <<>> /\ columns = <<>> /\ where_clause = <<>>
  /\ sql_query = S_SELECT_STAR_FROM_ \o T_orders

\* a fragment with a quoted literal whose quotes are balanced
BalancedQuoteFragment(f) == count(f, "'") > 0 /\ count(f, "'") % 2 = 0

\* the number of places where k occurs in s
Occurrences(s, k) ==
  Cardinality({i \in 1..(Len(s) - Len(k) + 1) : SubSeq(s, i, i + Len(k) - 1) = k})

\* C11: when the oracle's WHERE fragment holds a balanced-quote condition, the
\* assembled SQL has exactly one WHERE keyword, followed by the whole fragment
\* character for character.
C11_WhereFragmentVerbatim ==
  (pipeline = Query /\ sql_query # <<>> /\ BalancedQuoteFragment(where_response))
    => /\ Occurrences(upper(sql_query), S_WHERE) = 1
       /\ endswith(sql_query, <<" ">> \o S_WHERE_ \o where_response)

\* C11's simple case: a single quoted condition arrives whole
C11_SingleCondition ==
  /\ pipeline = Query /\ where_response = W_city
  /\ endswith(sql_query, <<" ">> \o S_WHERE_ \o W_city)

\* C11's failing case: the fragment is cut at its first quote
C11_Truncated ==
  /\ pipeline = Query /\ where_response = W_total_and_city
  /\ where_clause = SubSeq(W_total_and_city, 1, 22)
  /\ pc = "step5"

\* item is how column c is to appear in the SELECT list for the table list ts
QualifiedAs(ts, c, item) ==
  \/ /\ \A k \in 1..Len(ts) : ~HasColumn(ts[k], c)
     /\ item = c
  \/ \E k \in 1..Len(ts) :
       /\ HasColumn(ts[k], c)
       /\ \A j \in 1..(k - 1) : ~HasColumn(ts[j], c)
       /\ item = ts[k] \o <<".">> \o c

\* the SELECT list the column list is to give
ExpectedItems(ts, cols) ==
  [i \in 1..Len(cols) |->
     CHOOSE item \in {cols[i]} \cup {ts[k] \o <<".">> \o cols[i] : k \in 1..Len(ts)} :
       QualifiedAs(ts, cols[i], item)]

\* C12: the SELECT clause lists the given columns in the given order, each as
\* <table>.<column> for the first table of the list whose schema has the
\* column, and unchanged when no listed table has it.
C12_SelectClauseQualified ==
  (pipeline = Query /\ sql_query # <<>> /\ columns # <<>>)
    => startswith(sql_query,
                  S_SELECT_ \o join(S_COMMA_SP, ExpectedItems(tables, columns))
                    \o <<" ">> \o S_FROM_ \o tables[1])

\* C12's case: id is a column of both listed tables and takes the first one
C12_Witness ==
  /\ pipeline = Query
  /\ tables = <<T_customers, T_orders>>
  /\ columns = <<C_id, C_first_name, C_city, C_id, C_customer_id, C_total>>
  /\ startswith(sql_query, S_SELECT_ \o T_customers \o <<".">> \o C_id \o S_COMMA_SP)

\* C12's other case: columns of no listed table stay as they are
C12_PassThrough ==
  /\ pipeline = Query
  /\ tables = <<T_orders>>
  /\ columns = <<C_first_name, C_city>>
  /\ startswith(sql_query, S_SELECT_ \o C_first_name \o S_COMMA_SP \o C_city)

\* C12's example: two columns of the one listed table
C12_Example ==
  (pipeline = Query /\ sql_query # <<>> /\ tables = <<T_customers>>
     /\ columns = <<C_first_name, C_city>> /\ where_clause = <<>>)
    => sql_query = S_SELECT_ \o T_customers \o <<".">> \o C_first_name \o S_COMMA_SP
                     \o T_customers \o <<".">> \o C_city \o <<" ">> \o S_FROM_ \o T_customers

\* the text one JoinPlan entry is to contribute, with the space before it
JoinText(j) ==
  <<" ", "J", "O", "I", "N", " ">> \o j.to_table \o <<" ", "O", "N", " ">>
    \o j.from_table \o <<".">> \o j.from_column \o <<" ", "=", " ">>
    \o j.to_table \o <<".">> \o j.to_column

\* the text the SELECT clause is to be
SelectText(ts, cols) ==
  IF cols = <<>> THEN S_SELECT_STAR
  ELSE S_SELECT_ \o join(S_COMMA_SP, ExpectedItems(ts, cols))

\* the text the optional WHERE clause is to contribute
WhereText(wc) == IF wc = <<>> THEN <<>> ELSE <<" ">> \o S_WHERE_ \o wc

\* C13: the assembled SQL is the SELECT clause, the FROM clause, one JOIN clause
\* per JoinPlan entry in JoinPlan order and the optional WHERE clause, separated
\* by single spaces; there are as many JOIN clauses as JoinPlan entries.
C13_ClausesInFixedOrder ==
  (pipeline = Query /\ sql_query # <<>>)
    => /\ sql_query = SelectText(tables, columns) \o <<" ">> \o S_FROM_ \o tables[1]
                        \o Concat([i \in 1..Len(joins) |-> JoinText(joins[i])])
                        \o WhereText(where_clause)
       /\ Occurrences(sql_query, S_JOIN_) = Len(joins)

\* C13's example: two tables, the one edge between them, no columns, no WHERE
C13_Witness ==
  /\ pipeline = Query
  /\ tables = <<T_order_items, T_orders>>
  /\ joins = <<[from_table |-> T_order_items, to_table |-> T_orders,
                from_column |-> C_order_id, to_column |-> C_id]>>
  /\ columns = <<>> /\ where_clause = <<>>
  /\ sql_query = S_SELECT_STAR_FROM_ \o T_order_items \o <<" ">> \o S_JOIN_ \o T_orders
                   \o S__ON_ \o T_order_items \o <<".">> \o C_order_id \o S__EQ_
                   \o T_orders \o <<".">> \o C_id

\* C13's other case: a JOIN clause followed by the WHERE clause
C13_JoinThenWhere ==
  /\ pipeline = Query /\ sql_query # <<>>
  /\ Len(joins) = 1 /\ where_clause = W_city
  /\ endswith(sql_query, C_id \o <<" ">> \o S_WHERE_ \o W_city)

\* C13's case of JoinPlan order: two entries, two JOIN clauses in the same order
C13_TwoJoins ==
  /\ pipeline = Query /\ sql_query # <<>>
  /\ Len(joins) = 2
  /\ joins[1].to_table = T_orders /\ joins[2].to_table = T_customers
  /\ contains(sql_query, JoinText(joins[1]) \o JoinText(joins[2]))

\* s starts with SELECT, its tokens are separated by single spaces and it has
\* no trailing semicolon
CleanSelect(s) ==
  /\ startswith(upper(s), S_SELECT)
  /\ \A i \in 1..Len(s) : s[i] \in WS => s[i] = " "
  /\ s[1] # " " /\ s[Len(s)] # " "
  /\ \A i \in 1..(Len(s) - 1) : ~(s[i] = " " /\ s[i + 1] = " ")
  /\ s[Len(s)] # ";"

\* C14: for a clean SELECT text S the statement-mode Extractor returns exactly S
\* both for S and for S wrapped in a markdown fence.
C14_FenceRoundTrip ==
  (vres.fn = "_clean_advanced_sql" /\ CleanSelect(vin))
    => vres.plain = vin /\ vres.in_fence = vin

\* the round trip of the clean SELECT texts that hold no fence themselves
C14_RoundTripWithoutInnerFence ==
  (vres.fn = "_clean_advanced_sql" /\ CleanSelect(vin) /\ ~contains(vin, Fence))
    => vres.plain = vin /\ vres.in_fence = vin

\* a statement with a condition comes back from the fence as it was
C14_RoundTripReached ==
  /\ vres.fn = "_clean_advanced_sql"
  /\ vin = P_selectAFromU \o P_whereY
  /\ vres.in_fence = vin /\ vres.plain = vin

\* C14's failing case: a fence inside a string literal is removed
C14_InnerFenceRemoved ==
  /\ vres.fn = "_clean_advanced_sql"
  /\ vin = P_SelectStarFromT \o P_WhereXq \o P_FenceQuote
  /\ vres.plain = P_SelectStarFromT \o P_WhereXq \o P_Quote
  /\ vres.in_fence = vres.plain

\* the largest number of foreign keys a table of the snapshot has
MostKeys == SetMax({Len(schema.tab[t].foreign_keys) : t \in DOMAIN schema.tab})

\* the places <<i, j, k>> of a candidate list ts where key k of the table at i
\* refers to the different table at j
EdgePlaces(ts) ==
  {p \in (1..Len(ts)) \X (1..Len(ts)) \X (1..MostKeys) :
     /\ ts[p[1]] # ts[p[2]]
     /\ p[3] <= Len(schema.tab[ts[p[1]]].foreign_keys)
     /\ schema.tab[ts[p[1]]].foreign_keys[p[3]].referred_table = ts[p[2]]}

\* p comes before q: by from_table position, then to_table position, then key
PlaceBefore(p, q) ==
  \/ p[1] < q[1]
  \/ p[1] = q[1] /\ p[2] < q[2]
  \/ p[1] = q[1] /\ p[2] = q[2] /\ p[3] < q[3]

\* the edge of a place: the first column pair of the key
EdgeOfPlace(ts, p) ==
  [from_table |-> ts[p[1]], to_table |-> ts[p[2]],
   from_column |-> schema.tab[ts[p[1]]].foreign_keys[p[3]].constrained_columns[1],
   to_column |-> schema.tab[ts[p[1]]].foreign_keys[p[3]].referred_columns[1]]

\* C15: step2_analyze_joins returns exactly the foreign-key edges between two
\* different listed tables, with the first column pair of each key, ordered by
\* from_table position, to_table position and key order; nothing for fewer
\* than two tables, and no edge to or through a table that is not listed.
C15_JoinPlanIsListedEdges ==
  vres.fn = "step2_analyze_joins"
    => /\ Len(vres.joins) = Cardinality(EdgePlaces(vin))
       /\ \A p \in EdgePlaces(vin) :
            vres.joins[Cardinality({q \in EdgePlaces(vin) : PlaceBefore(q, p)}) + 1]
              = EdgeOfPlace(vin, p)
       /\ Len(vin) < 2 => vres.joins = <<>>
       /\ \A k \in 1..Len(vres.joins) :
            /\ \E i \in 1..Len(vin) : vin[i] = vres.joins[k].from_table
            /\ \E i \in 1..Len(vin) : vin[i] = vres.joins[k].to_table

\* C15's case: order_items reaches customers only through orders, which is
\* not listed, and refers to itself: no edge
C15_Witness ==
  /\ vres.fn = "step2_analyze_joins"
  /\ vin = <<T_order_items, T_customers>>
  /\ vres.joins = <<>>

\* C15's other case: the edges of three listed tables in list order, the
\* two-column key by its first pair
C15_ThreeTables ==
  /\ vres.fn = "step2_analyze_joins"
  /\ vin = <<T_customers, T_orders, T_order_items>>
  /\ Len(vres.joins) = 3
  /\ vres.joins[2].from_column = C_referrer_id
  /\ vres.joins[3] = [from_table |-> T_order_items, to_table |-> T_orders,
                      from_column |-> C_order_id, to_column |-> C_id]

\* C16: whatever calls were made, successful or failed, in any of the three
\* pipelines, the schema snapshot is the one built at construction, and no
\* step changes it.
C16_SchemaNeverMutated == [](schema = _get_schema) /\ [][schema' = schema]_vars

\* C16's case: a call went as far as the database and returned, and the
\* snapshot is still the constructed one
C16_Witness ==
  /\ pc = "returned" /\ db_log # <<>>
  /\ schema = _get_schema
  /\ schema.tab[T_orders].foreign_keys = <<ForeignKey(<<C_customer_id>>, T_customers, <<C_id>>)>>

\* the words of s that stand as names: outside string literals, not a number
\* and not followed by an opening parenthesis
NameWords(s) ==
  {SubSeq(s, i, RunEnd(s, i, IsWordChar)) :
     i \in {j \in 1..Len(s) :
              /\ IsWordChar(s[j]) /\ s[j] \notin Digits
              /\ (j = 1 \/ ~IsWordChar(s[j - 1]))
              /\ count(SubSeq(s, 1, j - 1), "'") % 2 = 0
              /\ ~(RunEnd(s, j, IsWordChar) < Len(s)
                     /\ s[RunEnd(s, j, IsWordChar) + 1] = "(")}}

\* the words of the assembler's own clauses and of conditions
SqlWords == {S_SELECT, S_FROM, S_JOIN, <<"O", "N">>, S_WHERE, S_AND, S_OR, S_LIKE}

\* the table names and column names of the snapshot
SnapshotNames ==
  DOMAIN schema.tab
    \cup UNION {{schema.tab[t].columns[i] : i \in 1..Len(schema.tab[t].columns)} :
                  t \in DOMAIN schema.tab}

\* s refers to a table or column that the snapshot does not have
ReferencesUnknownName(s) ==
  \E w \in NameWords(s) : upper(w) \notin SqlWords /\ w \notin SnapshotNames

\* the running call sent its statement for execution
WasExecuted == \E i \in 1..Len(db_log) : db_log[i].kind = "execute"

\* C17: the tables handed to the Assembler are keys of the snapshot, and a
\* query that refers to a table or column missing from the snapshot is never
\* executed: the call returns a failure record.
C17_UnknownNamesFail ==
  pipeline = Query
    => /\ \A i \in 1..Len(tables) : tables[i] \in DOMAIN schema.tab
       /\ (sql_query # <<>> /\ ReferencesUnknownName(sql_query))
            => /\ pc # "step5" /\ ~WasExecuted
               /\ pc = "returned" => IsFailureRecord(response)

\* the first half of C17: whatever the oracle answered, step 1 hands on only
\* tables of the snapshot
C17_TablesFromSnapshot ==
  pipeline = Query => \A i \in 1..Len(tables) : tables[i] \in DOMAIN schema.tab

\* C17's failing case: a column missing from the snapshot, unqualified, passes
\* the three layers and is executed
C17_UnknownColumnExecuted ==
  /\ pipeline = Query /\ pc = "returned"
  /\ where_clause = W_month
  /\ WasExecuted /\ MarkedOk(response)

\* the connections taken and not yet released after the first n entries
OpenAfter(n) ==
  Cardinality({i \in 1..n : db_log[i].kind = "open" /\ db_log[i].ok})
    - Cardinality({i \in 1..n : db_log[i].kind = "close"})

\* every connection a call takes is released before the call goes on or
\* returns, at most one is held at a time and each statement runs on one
ReleasedBeforeReturn ==
  /\ \A n \in 0..Len(db_log) : OpenAfter(n) \in {0, 1}
  /\ \A i \in 1..Len(db_log) :
       db_log[i].kind \in {"explain", "set", "execute", "fetch"} => OpenAfter(i) = 1
  /\ OpenAfter(Len(db_log)) = 0

\* C18: each call opens a new connection for its database work and closes it
\* before it returns, on every path; never more than one is open, and none is
\* kept open or reused by a later query.
C18_ConnectionPerQuery ==
  /\ ReleasedBeforeReturn
  /\ pc \in {"idle", "returned"} => pool = 0

\* C18 as it holds: each call takes a connection from the engine for its
\* database work and releases it before it returns, on every path, and never
\* holds more than one; the engine's pool may keep a released connection open.
C18_ConnectionReleasedPerQuery == ReleasedBeforeReturn /\ pool \in {0, 1}

\* C18's case: the statement failed, the connection was released, the call
\* returned, and the engine still holds the connection
C18_Witness ==
  /\ pc = "returned"
  /\ \E i \in 1..Len(db_log) : db_log[i].kind = "execute" /\ ~db_log[i].ok
  /\ db_log[Len(db_log)].kind = "close"
  /\ pool = 1

\* C19: in each interactive loop the only input that ends the loop is exit:
\* whatever else was typed, a question or a reserved command, also one whose
\* handling fails, the process is still prompting afterwards
C19_OnlyExitEndsLoop ==
  /\ running \in {"off", "prompt", "ended"}
  /\ (running = "ended" => lower(strip(user_input)) = I_exit)

\* the same statement for main.py and simple_main.py alone
C19_MainAndSimpleKeepPrompting ==
  entry \in {"main.py", "simple_main.py"} => C19_OnlyExitEndsLoop

\* adv_main.py stopped with a traceback on the reserved command history
C19_HistoryCommandEndsProcess ==
  /\ entry = "adv_main.py"
  /\ running = "crashed"
  /\ user_input = I_history

\* a failing question in main.py and in adv_main.py left the loop prompting
C19_FailureReported ==
  /\ running = "prompt"
  /\ \/ entry = "main.py" /\ console = "error"
     \/ entry = "adv_main.py" /\ console \in {"failed", "analysis error"}

\* the nine keywords of the denylist
NineKeywords ==
  {S_DROP, S_DELETE, S_UPDATE, S_INSERT, S_CREATE, S_ALTER, S_TRUNCATE, S_EXEC,
   S_EXECUTE}

\* C20: every validator variant rejects every string whose uppercased form
\* contains one of the nine denylisted keywords as a substring, inside an
\* identifier or a string literal too.
C20_NineKeywordsRejected ==
  (Validated /\ \E k \in NineKeywords : contains(upper(vin), k)) => ~vres.ok

\* the same for the seven keywords other than EXEC and EXECUTE
C20_SevenKeywordsRejected ==
  (Validated /\ \E k \in NineKeywords \ {S_EXEC, S_EXECUTE} : contains(upper(vin), k))
    => ~vres.ok

\* the same for the two _is_safe_sql methods and all nine keywords
C20_IsSafeSqlRejectsNine ==
  (vres.fn \in {"Advanced_is_safe_sql", "Simple_is_safe_sql"}
     /\ \E k \in NineKeywords : contains(upper(vin), k)) => ~vres.ok

\* an identifier containing update is rejected by validate_sql_syntax
C20_UpdateInIdentifierRejected ==
  /\ vres.fn = "validate_sql_syntax"
  /\ vin = P_SelectStarFromT \o P_update_count
  /\ ~vres.ok

\* an identifier containing exec passes validate_sql_syntax
C20_ExecPassesSyntaxCheck ==
  /\ vres.fn = "validate_sql_syntax"
  /\ vin = P_SelectStarFromT \o P_WhereXq \o P_exec_time
  /\ contains(upper(vin), S_EXEC)
  /\ vres.ok

\* the string passes the two checks validate_sql_syntax makes first
PassesClauseAndParenChecks(s) ==
  /\ HasAnyCase(s, S_SELECT)
  /\ HasAnyCase(s, S_FROM)
  /\ count(s, "(") = count(s, ")")

\* C21: validate_sql_syntax gives the reason 'Invalid WHERE clause' exactly for
\* the strings that pass the SELECT/FROM and parenthesis checks, contain where
\* in some letter case and contain no upper-case WHERE; so a string with both
\* spellings passes this check, and the check comes before the keyword check.
C21_InvalidWhereExactly ==
  (vres.fn = "validate_sql_syntax")
    => ((vres.msg = "Invalid WHERE clause")
          <=> (/\ PassesClauseAndParenChecks(vin)
               /\ HasAnyCase(vin, S_WHERE)
               /\ ~contains(vin, S_WHERE)))

\* C21's case: a lower-case where and a dangerous keyword, rejected for the where
C21_Witness ==
  /\ vres.fn = "validate_sql_syntax"
  /\ vin = P_SelectStarFromT \o P_whereY \o P_Drop
  /\ ~vres.ok
  /\ vres.msg = "Invalid WHERE clause"

\* both spellings in one string: the check passes
C21_BothSpellingsPass ==
  /\ vres.fn = "validate_sql_syntax"
  /\ vin = P_SelectStarFromT \o P_whereY \o P_WhereXq
  /\ vres.ok

\* a word starts at p
WordStartsAt(s, p) == IsWordChar(s[p]) /\ (p = 1 \/ ~IsWordChar(s[p - 1]))

\* every table.column pair that occurs anywhere in s
PairsAnywhere(s) ==
  {PairMatch(s, p).groups[1] :
     p \in {q \in 1..Len(s) : WordStartsAt(s, q) /\ PairMatch(s, q).end # 0}}

\* every identifier of s that precedes a '.' or follows FROM or JOIN
TableIdentifiers(s) ==
  {TableMatch(s, p).groups[1] :
     p \in {q \in 1..Len(s) : WordStartsAt(s, q) /\ TableMatch(s, q).end # 0}}

\* the statements the semantic cross-check of the running call passed
PassedSemantic ==
  {check_log[i].sql : i \in {j \in 1..Len(check_log) :
                               check_log[j].check = "semantic" /\ check_log[j].ok}}

\* C22: the semantic cross-check passes a statement only if every identifier
\* before a '.' or after FROM or JOIN is a table of the snapshot and every
\* table.column pair anywhere in it, the SELECT list included, names a column
\* of that table.
C22_SemanticCheckComplete ==
  \A s \in PassedSemantic :
    /\ \A tb \in TableIdentifiers(s) : InSchema(tb)
    /\ \A pr \in PairsAnywhere(s) : InSchema(pr.table) /\ HasColumn(pr.table, pr.column)

\* the same for the pairs after the first FROM: ON conditions and WHERE clause
C22_PairsAfterSelectListChecked ==
  \A s \in PassedSemantic :
    /\ \A tb \in TableIdentifiers(s) : InSchema(tb)
    /\ \A pr \in PairsAnywhere(SubSeq(s, SelectFromEnd(s, 1) + 1, Len(s))) :
         InSchema(pr.table) /\ HasColumn(pr.table, pr.column)

\* a WHERE clause naming a column the table lacks was rejected by the check
C22_WherePairRejected ==
  \E i \in 1..Len(check_log) :
    /\ check_log[i].check = "semantic" /\ ~check_log[i].ok
    /\ \E pr \in PairsAnywhere(check_log[i].sql) :
         InSchema(pr.table) /\ ~HasColumn(pr.table, pr.column)

\* a SELECT list naming a column the table lacks passed the check
C22_SelectListPairPassed ==
  \E s \in PassedSemantic :
    \E pr \in PairsAnywhere(s) : InSchema(pr.table) /\ ~HasColumn(pr.table, pr.column)

\* s holds a comparison operator: LIKE in some letter case, or one of = > <
\* (which every one of <=, >=, != contains)
HasComparisonOperator(s) ==
  \/ HasAnyCase(s, S_LIKE)
  \/ \E i \in 1..Len(s) : s[i] \in {"=", ">", "<"}

\* step 4 has assembled a statement from the oracle's answer about the filter
FragmentExtracted == pipeline = Query /\ sql_query # <<>>

\* C23 as stated: the extracted fragment is empty only for an empty response
\* and for a response of 10 or more tokens without a comparison operator.
C23_EmptyOnlyForLongResponse ==
  FragmentExtracted
    => ((where_clause = <<>>)
          <=> \/ where_response = <<>>
              \/ /\ Len(split(where_response)) >= ShortResponseTokens
                 /\ ~HasComparisonOperator(where_response))

\* the lines of the response, trimmed, that hold an operator as tier 2 tests it
OperatorLines(s) ==
  SelectSeq(StripAll(splitlines(s)), LAMBDA ln : \E op \in LineOps : contains(ln, op))

\* C23 amended: three tiers in strict priority. The first match of the
\* pattern, as it stands in the response; else the first line holding an
\* operator, trimmed and without its double quotes; else, for a response of
\* fewer than 10 tokens, the trimmed response without its double quotes; else
\* nothing. The fragment is empty exactly for a response made of double quotes
\* only (or of nothing) and for one of 10 or more tokens with no operator.
C23_ThreeTiers ==
  FragmentExtracted
    => LET first == search(where_response, 1, CondMatch)
       IN /\ IF first # 0
               THEN where_clause = SubSeq(where_response, first, CondMatchEnd(where_response, first))
             ELSE IF OperatorLines(where_response) # <<>>
               THEN where_clause = replace(OperatorLines(where_response)[1], "\"", <<>>)
             ELSE IF Len(split(where_response)) < ShortResponseTokens
               THEN where_clause = replace(where_response, "\"", <<>>)
             ELSE where_clause = <<>>
          /\ (where_clause = <<>>)
               <=> \/ \A i \in 1..Len(where_response) : where_response[i] = "\""
                   \/ /\ Len(split(where_response)) >= ShortResponseTokens
                      /\ ~HasComparisonOperator(where_response)

\* C23's cases: a long response without operator gives no WHERE clause
C23_Witness ==
  /\ FragmentExtracted
  /\ where_response = W_prose
  /\ where_clause = <<>>
  /\ ~contains(sql_query, S_WHERE)

\* tier 2: the second line, without its double quotes
C23_LineTier ==
  /\ FragmentExtracted
  /\ where_response = W_lines
  /\ where_clause = <<"n", "a", "m", "e", "=", "B", "o", "b">>

\* tier 3: a short response whole
C23_ShortTier == FragmentExtracted /\ where_response = W_none /\ where_clause = W_none

\* a response of two double quotes gives an empty fragment
C23_QuotesOnly == FragmentExtracted /\ where_response = W_quotes /\ where_clause = <<>>

\* C24: when the oracle's answer does not start with SELECT and holds a fenced
\* code block, the statement-mode Extractor returns the contents of the block
\* only, without the prose before and after the fence.
C24_FencedBlockOnly ==
  (vres.fn = "_clean_advanced_sql" /\ CleanSelect(vin) /\ ~contains(vin, Fence))
    => vres.in_prose = vin

\* what comes back instead: the text from the first SELECT to the end of the
\* answer, the prose after the fence included
C24_GreedyToEndOfAnswer ==
  (vres.fn = "_clean_advanced_sql" /\ CleanSelect(vin) /\ ~contains(vin, Fence))
    => vres.in_prose = vin \o <<" ">> \o join(<<" ">>, split(S_prose_after))

\* C24's failing case: the prose after the fence is part of the statement
C24_ProseAfterFenceKept ==
  /\ vres.fn = "_clean_advanced_sql"
  /\ vin = P_SelectStarFromT
  /\ vres.in_fence = vin
  /\ vres.in_prose = vin \o <<" ", "I", "t", " ", "l", "i", "s", "t", "s", " ", "a", "l", "l", " ",
                              "r", "o", "w", "s", ".">>

\* s has no whitespace at either end and none but single spaces between tokens
SingleSpaced(s) ==
  /\ \A i \in 1..Len(s) : s[i] \in WS => s[i] = " "
  /\ s = <<>> \/ (s[1] # " " /\ s[Len(s)] # " ")
  /\ \A i \in 1..(Len(s) - 1) : ~(s[i] = " " /\ s[i + 1] = " ")

\* the three strings the Extractor returned for vin
CleanedStrings == {vres.plain, vres.in_fence, vres.in_prose}

\* C25: the string the statement-mode Extractor returns has no leading or
\* trailing whitespace, no whitespace but single spaces between tokens, no
\* markdown fence delimiter, and does not end with a semicolon.
C25_CleanedStringNormalised ==
  (vres.fn = "_clean_advanced_sql")
    => \A s \in CleanedStrings :
         /\ SingleSpaced(s)
         /\ ~contains(s, Fence)
         /\ ~endswith(s, <<";">>)

\* the same without the semicolon part
C25_SpacedAndUnfenced ==
  (vres.fn = "_clean_advanced_sql")
    => \A s \in CleanedStrings : SingleSpaced(s) /\ ~contains(s, Fence)

\* C25's failing case: of two semicolons with whitespace between them, one stays
C25_SemicolonLeft ==
  /\ vres.fn = "_clean_advanced_sql"
  /\ vin = P_Semi \o P_NlSp \o P_Semi
  /\ vres.plain = <<";">>

\* a single trailing semicolon is removed
C25_SemicolonRemoved ==
  /\ vres.fn = "_clean_advanced_sql"
  /\ vin = P_SelectStarFromT \o P_Semi \o P_NlSp
  /\ vres.plain = P_SelectStarFromT

\* a line satisfies one of the branch conditions of _clean_sql
LooksLikeSql(l) ==
  \/ startswith(upper(l), S_SELECT)
  \/ \E kw \in {S_FROM, S_WHERE, S_GROUP_BY, S_ORDER_BY, S_HAVING, S_LIMIT} :
       contains(upper(l), kw)
  \/ contains(upper(l), S_CONCAT_)
  \/ endswith(l, <<",">>)
  \/ startswith(l, S_AND) \/ startswith(l, S_OR)

\* the non-empty lines of a text, trimmed
NonEmptyLines(s) == SelectSeq(StripAll(splitOn(s, "\n")), LAMBDA l : l # <<>>)

\* the number of lines in the leading run that look like SQL
LeadingRun(ls) ==
  CHOOSE n \in 0..Len(ls) :
    /\ \A k \in 1..n : LooksLikeSql(ls[k])
    /\ n < Len(ls) => ~LooksLikeSql(ls[n + 1])

\* the leading run joined by single spaces
JoinedRun(ls) == join(<<" ">>, SubSeq(ls, 1, LeadingRun(ls)))

\* C26 as stated: for every input _clean_sql returns the leading run of
\* non-empty lines that satisfy a branch condition, joined by single spaces,
\* and nothing of the first line that satisfies none or of the lines after it.
C26_LeadingRunOnly ==
  (vres.fn = "_clean_sql") => vres.result = JoinedRun(NonEmptyLines(vres.text))

\* C26 amended: the leading run joined by single spaces when it has a line,
\* and the whole text, stop line and all, when it has none.
C26_LeadingRunOrWhole ==
  (vres.fn = "_clean_sql")
    => IF LeadingRun(NonEmptyLines(vres.text)) > 0
         THEN vres.result = JoinedRun(NonEmptyLines(vres.text))
         ELSE vres.result = vres.text

\* C26's case: the line after the statement satisfies no condition and is dropped
C26_Witness ==
  /\ vres.fn = "_clean_sql"
  /\ vin = P_SelectStarFromT \o P_NlSp \o P_Drop
  /\ vres.result = P_SelectStarFromT

\* no line is kept: both lines come back
C26_NothingKept ==
  /\ vres.fn = "_clean_sql"
  /\ vin = P_Drop \o P_NlSp \o P_Delete
  /\ vres.result = vin

\* the tables the statement has introduced before its i-th JOIN clause
IntroducedBefore(i) == {tables[1]} \cup {joins[k].to_table : k \in 1..(i - 1)}

\* C27: the assembled SQL is join-consistent: every table named in an ON
\* condition is the FROM table or the table of that JOIN clause or of an earlier
\* one, and no table is introduced twice, whichever table of a foreign key
\* comes first in the list.
C27_JoinConsistent ==
  (pipeline = Query /\ sql_query # <<>>)
    => \A i \in 1..Len(joins) :
         /\ joins[i].to_table \notin IntroducedBefore(i)
         /\ joins[i].from_table \in IntroducedBefore(i) \cup {joins[i].to_table}

\* the place of table tb in the table list
PlaceInList(tb) == CHOOSE k \in 1..Len(tables) : tables[k] = tb

\* the same for the lists in which, for every edge, the table holding the
\* foreign key comes before the table it refers to
C27_ConsistentWhenHolderFirst ==
  (/\ pipeline = Query /\ sql_query # <<>>
   /\ \A i \in 1..Len(joins) : PlaceInList(joins[i].from_table) < PlaceInList(joins[i].to_table))
    => \A i \in 1..Len(joins) :
         /\ joins[i].to_table \notin IntroducedBefore(i)
         /\ joins[i].from_table \in IntroducedBefore(i) \cup {joins[i].to_table}

\* C27's failing case: the referred table first; it is joined to itself and the
\* table of the ON condition's left side is never introduced
C27_FromTableJoinedAgain ==
  /\ pipeline = Query
  /\ tables = <<T_customers, T_orders>>
  /\ contains(sql_query, S_FROM_ \o T_customers \o <<" ">> \o S_JOIN_ \o T_customers
                           \o S__ON_ \o T_orders \o <<".">> \o C_customer_id)
  /\ pc = "step5"

\* the holder first: FROM orders JOIN customers
C27_HolderFirst ==
  /\ pipeline = Query
  /\ tables = <<T_orders, T_customers>>
  /\ contains(sql_query, S_FROM_ \o T_orders \o <<" ">> \o S_JOIN_ \o T_customers)

\* the table-identification call of the running request was answered and
\* yielded no table
IdentifiedNoTable ==
  /\ pipeline \in {Query, "SimpleSQLPipeline"}
  /\ llm_log # <<>> /\ llm_log[1].ok
  /\ IF pipeline = Query THEN tables = <<>> ELSE target_table = <<>>

\* C28: when table identification yields no table the request stops there: no
\* oracle call follows the identification call, no database connection is
\* opened and nothing is sent to the database, no check is run, and the
\* request has ended in a failure record.
C28_NoTableStopsEarly ==
  IdentifiedNoTable
    => /\ Len(llm_log) = 1
       /\ db_log = <<>> /\ check_log = <<>>
       /\ pc = "returned" /\ ~raised
       /\ HasError(response)
       /\ ~MarkedOk(response)

\* C28's case in SimpleSQLPipeline: UNKNOWN for a question naming no table
C28_Witness ==
  /\ pipeline = "SimpleSQLPipeline"
  /\ IdentifiedNoTable
  /\ pc = "returned"
  /\ response = Simple_error_response(<<"Could not identify which table you're asking about">>)

\* C28's case in SQLQueryPipeline
C28_QueryCase ==
  /\ pipeline = Query
  /\ IdentifiedNoTable
  /\ pc = "returned" /\ Len(llm_log) = 1 /\ db_log = <<>>

\* the last question adv_main.py processed succeeded with a non-empty result set
LastQueryGaveRows ==
  /\ entry = "adv_main.py"
  /\ chat_history # <<>>
  /\ chat_history[Len(chat_history)].bot = "rows"

\* C29: in the adv_main.py loop, after a query that succeeded with a non-empty
\* result set the visualizer built from the results is the current analyzer at
\* the prompt (until clear or a query without rows resets it), so that a
\* visualization command is not processed as a new SQL question.
C29_AnalyzerKeptForPlots ==
  /\ (LastQueryGaveRows /\ running = "prompt") => current_analyzer # "None"
  /\ \A i \in 1..Len(chat_history) :
       (entry = "adv_main.py" /\ i > 1 /\ chat_history[i - 1].bot = "rows")
         => first_word(chat_history[i].user) \notin VizPrefixes

\* at the prompts of adv_main.py there is never an analyzer
C29_NeverAnAnalyzer == entry = "adv_main.py" => current_analyzer = "None"

\* C29's failing case: after a query with rows the command auto went to
\* process_query as a question
C29_PlotCommandBecomesQuestion ==
  /\ entry = "adv_main.py" /\ running = "prompt"
  /\ Len(chat_history) = 2
  /\ chat_history[1] = [user |-> I_question, bot |-> "rows"]
  /\ chat_history[2].user = I_auto
  /\ current_analyzer = "None"

\* the line read is one main.py processes as a question
ProcessedAsQuestion(line) == lower(line) \notin {I_exit, I_schema}

\* C30: in the main.py loop every input other than exit and schema adds exactly
\* one entry to the chat history, at its end and with the user's text
\* unchanged, whether processing, display and serialisation succeed or one of
\* them raises; exit and schema add none.
C30_OneEntryPerQuestion ==
  [][entry = "main.py"
       => IF ProcessedAsQuestion(user_input')
            THEN /\ Len(chat_history') = Len(chat_history) + 1
                 /\ SubSeq(chat_history', 1, Len(chat_history)) = chat_history
                 /\ chat_history'[Len(chat_history')].user = user_input'
            ELSE chat_history' = chat_history]_vars

\* C30's case: a question whose handling raised, then one that succeeded; the
\* first is stored with the blanks the user typed
C30_Witness ==
  /\ entry = "main.py" /\ running = "prompt"
  /\ chat_history = <<[user |-> I_Exit_padded, bot |-> "Error"],
                      [user |-> I_question, bot |-> "rows"]>>
  /\ console = "results"

====
